---- MODULE Spec2Model ----
(***************************************************************************)
(* Project synchronization engine of boardlly (api/app/services/github.py  *)
(* and api/app/api/routers/projects.py): the full resync of one GitHub     *)
(* project into the local store and the propagation of local item edits.  *)
(*                                                                         *)
(* Spec      one request at a time: full syncs, item edits and changes of  *)
(*           the remote board, each handler taken as one step.             *)
(* SpecConc  two full resyncs of the same project, each in its own         *)
(*           database session, interleaved at their await points.          *)
(***************************************************************************)
EXTENDS Integers, Sequences, FiniteSets, TLC

(* ---------------------------------------------------------------- bounds *)
MaxClock == 4      \* operations (requests and remote changes) in one behaviour; also the latest timestamp

(* ------------------------------------------------------------ null values *)
NULL == "NULL"     \* Python None of an Optional[str]
NoDate == 0        \* Python None of an Optional[datetime]; dates are day numbers >= 1
BadDate == -1      \* a date string that datetime.fromisoformat does not accept

NodeIds == {"n1", "n2"}
NodeSeq == <<"n1", "n2">>
Editors == {"u1"}

(* ------------------------------------------------------- string functions *)
\* str.strip() on the strings the model uses
Strip(s) ==
  CASE s = " Done" -> "Done"
    [] s = " " -> ""
    [] s = " red " -> "red"
    [] s = " Backlog " -> "Backlog"
    [] OTHER -> s

\* str.lower() on the strings the model uses
Lower(s) ==
  CASE s = "Done" -> "done"
    [] s = "DONE" -> "done"
    [] s = "Backlog" -> "backlog"
    [] s = "Review" -> "review"
    [] s = "Status" -> "status"
    [] s = "Iteration" -> "iteration"
    [] s = "Epic" -> "epic"
    [] s = "Notes" -> "notes"
    [] s = "SINGLE_SELECT" -> "single_select"
    [] s = "ITERATION" -> "iteration"
    [] s = "TEXT" -> "text"
    [] s = "Start date" -> "start date"
    [] s = "End date" -> "end date"
    [] s = "Due date" -> "due date"
    [] s = "Shipped" -> "shipped"
    [] s = "Sprint" -> "sprint"
    [] s = "Parent issue" -> "parent issue"
    [] s = "Epic Link" -> "epic link"
    [] s = "My Epics" -> "my epics"
    [] s = "NUMBER" -> "number"
    [] s = "ProjectV2SingleSelectField" -> "projectv2singleselectfield"
    [] OTHER -> s

\* str.upper() on the strings the model uses
Upper(s) ==
  CASE s = "blue" -> "BLUE"
    [] s = "red" -> "RED"
    [] s = "magenta" -> "MAGENTA"
    [] OTHER -> s

(* ------------------------------------------------ the remote field catalog *)
\* One entry of a field's option list.  Single-select options carry id, name
\* and color; iteration entries carry id, title, startDate (a day number, NoDate
\* when missing) and duration, a JSON value: [kind |-> "int", n |-> days],
\* [kind |-> "text"] for a string that is no number, [kind |-> "digits", n |-> days]
\* for a string of digits, [kind |-> "blank"] for "", [kind |-> "none"] for null.
DurInt(n) == [kind |-> "int", n |-> n]
DurText == [kind |-> "text", n |-> 0]
DurDigits(n) == [kind |-> "digits", n |-> n]
DurBlank == [kind |-> "blank", n |-> 0]
DurNone == [kind |-> "none", n |-> 0]
OptC(id, name, color) ==
  [id |-> id, name |-> name, color |-> color, title |-> NULL, startDate |-> NoDate, duration |-> DurNone]
Opt(id, name) == OptC(id, name, "GRAY")
Iter(id, title, start, dur) ==
  [id |-> id, name |-> NULL, color |-> NULL, title |-> title, startDate |-> start, duration |-> dur]

\* A field node as returned in ProjectMetadata.field_mappings.  shape says
\* whether the node carries "options" (a list), "configuration" (a dict
\* holding the iterations) or neither.
FStatusA == [id |-> "F_status", name |-> "Status", dataType |-> "SINGLE_SELECT", shape |-> "options",
             entries |-> <<Opt("b", "Backlog"), Opt("d", "Done")>>]
FStatusB == [id |-> "F_status", name |-> "Status", dataType |-> "SINGLE_SELECT", shape |-> "options",
             entries |-> <<Opt("b", "Backlog"), Opt("r", "Review"), Opt("d2", "DONE")>>]
FIter == [id |-> "F_iter", name |-> "Iteration", dataType |-> "ITERATION", shape |-> "configuration",
          entries |-> <<Iter("it1", "Sprint 1", 1, DurInt(14))>>]
FEpic == [id |-> "F_epic", name |-> "Epic", dataType |-> "SINGLE_SELECT", shape |-> "options",
          entries |-> <<Opt("e1", "Epic One")>>]
FNotes == [id |-> "F_notes", name |-> "Notes", dataType |-> "TEXT", shape |-> "none", entries |-> <<>>]

\* The catalogs the remote project can have (field ids and names are unique
\* within a catalog, as on the remote side).
Catalogs == {<<FStatusA>>, <<FStatusA, FIter>>, <<FStatusB, FIter, FEpic>>, <<FIter, FNotes>>}

Range(seq) == {seq[i] : i \in 1..Len(seq)}

(* --------------------------------------------------------- the field cache *)
\* GithubProjectField rows are records
\*   [id, field_id, field_name, field_type, shape, entries]
\* where shape/entries hold the JSON column "options".

\* field_type = data.get("dataType") or data.get("__typename") or "UNKNOWN"
FieldTypeOf(data) == IF data.dataType # NULL /\ data.dataType # "" THEN data.dataType ELSE "UNKNOWN"

\* The loop body of sync_project_fields for the catalog entries i..Len(fm):
\* acc = [rows, serial, seen]; existing is the row set loaded before the loop.
RECURSIVE SyncFieldsLoop(_, _, _, _)
SyncFieldsLoop(existing, fm, i, acc) ==
  IF i > Len(fm) THEN acc
  ELSE
    LET data == fm[i]
        hit == {r \in existing : r.field_id = data.id}
    IN IF data.id = NULL \/ data.id = ""
       THEN SyncFieldsLoop(existing, fm, i + 1, acc)
       ELSE IF hit # {}
       THEN LET old == CHOOSE r \in hit : TRUE
                new == [old EXCEPT !.field_name = data.name, !.field_type = FieldTypeOf(data),
                                   !.shape = data.shape, !.entries = data.entries]
            IN SyncFieldsLoop(existing, fm, i + 1,
                 [acc EXCEPT !.rows = (@ \ {r \in @ : r.id = old.id}) \cup {new},
                             !.seen = @ \cup {data.id}])
       ELSE LET new == [id |-> acc.serial + 1, field_id |-> data.id, field_name |-> data.name,
                        field_type |-> FieldTypeOf(data), shape |-> data.shape, entries |-> data.entries]
            IN SyncFieldsLoop(existing, fm, i + 1,
                 [acc EXCEPT !.rows = @ \cup {new}, !.serial = @ + 1, !.seen = @ \cup {data.id}])

\* sync_project_fields without its final loop: rows of vanished fields stay
sync_project_fields_keeps_stale(rows, serial, fm) ==
  LET looped == SyncFieldsLoop(rows, fm, 1, [rows |-> rows, serial |-> serial, seen |-> {}])
  IN [rows |-> looped.rows, serial |-> looped.serial]

\* sync_project_fields: update rows whose field id was fetched, insert the new
\* ids, delete every loaded row whose id was not seen.  Result: [rows, serial].
sync_project_fields(rows, serial, fm) ==
  LET looped == SyncFieldsLoop(rows, fm, 1, [rows |-> rows, serial |-> serial, seen |-> {}])
  IN [rows |-> {r \in looped.rows : ~(r \in rows /\ r.field_id \notin looped.seen)},
      serial |-> looped.serial]

\* unique = names without repetition, in order
RECURSIVE Dedup(_, _)
Dedup(names, i) ==
  IF i > Len(names) THEN <<>>
  ELSE LET rest == Dedup(names, i + 1)
       IN IF \E j \in 1..(i - 1) : names[j] = names[i] THEN rest ELSE <<names[i]>> \o rest

\* extract_status_columns: the option names of the field keyed "Status", without
\* repetition, with "Done" appended when missing; <<>> stands for None.
extract_status_columns(fm) ==
  LET hits == {i \in 1..Len(fm) : fm[i].name = "Status"}
  IN IF hits = {} THEN <<>>
     ELSE LET f == fm[CHOOSE i \in hits : TRUE]
          IN IF f.shape # "options" \/ f.entries = <<>> THEN <<>>
             ELSE LET named == SelectSeq(f.entries, LAMBDA o : o.name # NULL /\ o.name # "")
                      names == [k \in 1..Len(named) |-> named[k].name]
                      unique == Dedup(names, 1)
                  IN IF "Done" \in Range(unique) THEN unique ELSE Append(unique, "Done")

(* ------------------------------------------------------- the remote board *)
\* What the item's other field values and content look like on the remote
\* side; fetch_project_items turns them into these payload attributes.
Variant(v) ==
  IF v = 1
  THEN [title |-> "t1", iteration |-> NULL, iteration_id |-> NULL, iteration_start |-> NoDate,
        iteration_end |-> NoDate, start_date |-> NoDate, end_date |-> NoDate, due_date |-> NoDate,
        epic_option_id |-> NULL, epic_name |-> NULL,
        url |-> "url1", assignees |-> <<>>, estimate |-> 3, field_values |-> "values1"]
  ELSE [title |-> "t2", iteration |-> "Sprint 1", iteration_id |-> "it1", iteration_start |-> 1,
        iteration_end |-> 15, start_date |-> 1, end_date |-> 15, due_date |-> NoDate,
        epic_option_id |-> "e1", epic_name |-> "Epic One",
        url |-> "url2", assignees |-> <<"alice">>, estimate |-> 5, field_values |-> "values2"]

\* content.id of the issue the item n wraps
ContentNodeId(n) == IF n = "n1" THEN "c1" ELSE "c2"

\* ProjectItemPayload of the remote item n (r = its remote state)
Payload(n, r) ==
  LET v == Variant(r.variant)
  IN [node_id |-> n, title |-> v.title, status |-> r.status, iteration |-> v.iteration,
      iteration_id |-> v.iteration_id, iteration_start |-> v.iteration_start,
      iteration_end |-> v.iteration_end, start_date |-> v.start_date, end_date |-> v.end_date,
      due_date |-> v.due_date, epic_option_id |-> v.epic_option_id, epic_name |-> v.epic_name,
      remote_updated_at |-> r.updated_at, updated_at |-> r.updated_at,
      content_node_id |-> ContentNodeId(n), content_type |-> "Issue", url |-> v.url,
      assignees |-> v.assignees, estimate |-> v.estimate, field_values |-> v.field_values]

\* fetch_project_items: every present item of the board, in board order
fetch_project_items(ritems) ==
  LET present == SelectSeq(NodeSeq, LAMBDA n : ritems[n].present)
  IN [k \in 1..Len(present) |-> Payload(present[k], ritems[present[k]])]

(* ---------------------------------------------------------- the item store *)
\* The attributes upsert_project_items copies from the payload
SyncedAttrs == {"title", "status", "iteration", "iteration_id", "iteration_start", "iteration_end",
                "start_date", "end_date", "due_date", "epic_option_id", "epic_name",
                "remote_updated_at", "updated_at", "content_node_id", "content_type", "url",
                "assignees", "estimate", "field_values"}

\* The ProjectItem the loop constructs for a payload whose node id is not stored
InsertedRow(serial, p, now) ==
  [id |-> serial + 1, item_node_id |-> p.node_id, title |-> p.title, status |-> p.status,
   iteration |-> p.iteration, iteration_id |-> p.iteration_id,
   iteration_start |-> p.iteration_start, iteration_end |-> p.iteration_end,
   start_date |-> p.start_date, end_date |-> p.end_date, due_date |-> p.due_date,
   epic_option_id |-> p.epic_option_id, epic_name |-> p.epic_name,
   remote_updated_at |-> p.remote_updated_at, last_synced_at |-> now,
   last_local_edit_at |-> NoDate, last_local_edit_by |-> NULL,
   updated_at |-> p.updated_at, content_node_id |-> p.content_node_id,
   content_type |-> p.content_type, url |-> p.url, assignees |-> p.assignees,
   estimate |-> p.estimate, field_values |-> p.field_values,
   account_id |-> "a1", project_id |-> 1]

\* The loop body without the lookup: every payload is inserted as a new row
UpsertOneAlwaysInserts(rows, serial, p, now) ==
  [rows |-> rows \cup {InsertedRow(serial, p, now)}, serial |-> serial + 1]

\* The loop body that leaves the status of a row it finds alone
UpsertOneKeepsStatus(rows, serial, p, now) ==
  LET found == {r \in rows : r.item_node_id = p.node_id}
  IN IF found # {}
     THEN LET item == CHOOSE r \in found : TRUE
          IN [rows |-> (rows \ {item}) \cup {[InsertedRow(item.id - 1, p, now) EXCEPT
                                                !.status = item.status,
                                                !.last_local_edit_at = item.last_local_edit_at,
                                                !.last_local_edit_by = item.last_local_edit_by]},
              serial |-> serial]
     ELSE [rows |-> rows \cup {InsertedRow(serial, p, now)}, serial |-> serial + 1]

\* The loop body that passes over a row with a local edit
UpsertOneKeepsEdited(rows, serial, p, now) ==
  LET found == {r \in rows : r.item_node_id = p.node_id}
  IN IF found # {}
     THEN LET item == CHOOSE r \in found : TRUE
          IN [rows |-> IF item.last_local_edit_at # NoDate THEN rows
                       ELSE (rows \ {item}) \cup {[InsertedRow(item.id - 1, p, now) EXCEPT
                                                      !.account_id = item.account_id,
                                                      !.project_id = item.project_id]},
              serial |-> serial]
     ELSE [rows |-> rows \cup {InsertedRow(serial, p, now)}, serial |-> serial + 1]

\* The body of the loop of upsert_project_items for one payload:
\* select by item_node_id, update the row found or insert a new one.
UpsertOne(rows, serial, p, now) ==
  LET found == {r \in rows : r.item_node_id = p.node_id}
  IN IF found # {}
     THEN LET item == CHOOSE r \in found : TRUE
              new == [item EXCEPT !.title = p.title, !.status = p.status, !.iteration = p.iteration,
                                  !.iteration_id = p.iteration_id,
                                  !.iteration_start = p.iteration_start,
                                  !.iteration_end = p.iteration_end,
                                  !.start_date = p.start_date, !.end_date = p.end_date,
                                  !.due_date = p.due_date, !.epic_option_id = p.epic_option_id,
                                  !.epic_name = p.epic_name, !.last_synced_at = now,
                                  !.remote_updated_at = p.remote_updated_at,
                                  !.updated_at = p.updated_at,
                                  !.content_node_id = p.content_node_id,
                                  !.content_type = p.content_type, !.url = p.url,
                                  !.assignees = p.assignees, !.estimate = p.estimate,
                                  !.field_values = p.field_values]
          IN [rows |-> (rows \ {item}) \cup {new}, serial |-> serial]
     ELSE [rows |-> rows \cup {InsertedRow(serial, p, now)}, serial |-> serial + 1]

\* upsert_project_items: the loop over the payloads i..Len(payloads);
\* acc = [rows, serial, count]
RECURSIVE UpsertLoop(_, _, _, _)
UpsertLoop(acc, payloads, i, now) ==
  IF i > Len(payloads) THEN acc
  ELSE LET one == UpsertOne(acc.rows, acc.serial, payloads[i], now)
       IN UpsertLoop([rows |-> one.rows, serial |-> one.serial, count |-> acc.count + 1],
                     payloads, i + 1, now)

\* The upsert that drops the rows whose node id is not in the snapshot
upsert_project_items_pruning(rows, serial, payloads, now) ==
  LET done == UpsertLoop([rows |-> rows, serial |-> serial, count |-> 0], payloads, 1, now)
  IN [done EXCEPT !.rows = {r \in @ : r.item_node_id \in {q.node_id : q \in Range(payloads)}}]

upsert_project_items(rows, serial, payloads, now) ==
  UpsertLoop([rows |-> rows, serial |-> serial, count |-> 0], payloads, 1, now)


\* No row / no changeset
NoRow == [id |-> 0, item_node_id |-> NULL, title |-> NULL, status |-> NULL, iteration |-> NULL,
          iteration_id |-> NULL, iteration_start |-> NoDate, iteration_end |-> NoDate,
          start_date |-> NoDate, end_date |-> NoDate, due_date |-> NoDate, epic_option_id |-> NULL,
          epic_name |-> NULL, remote_updated_at |-> NoDate, last_synced_at |-> NoDate,
          last_local_edit_at |-> NoDate, last_local_edit_by |-> NULL,
          updated_at |-> NoDate, content_node_id |-> NULL, content_type |-> NULL, url |-> NULL,
          assignees |-> <<>>, estimate |-> 0, field_values |-> NULL,
          account_id |-> NULL, project_id |-> 0]

NoChangeset == [keys |-> {}, status |-> NULL, start_date |-> NoDate, end_date |-> NoDate,
                due_date |-> NoDate, iteration_id |-> NULL, iteration_title |-> NULL,
                epic_option_id |-> NULL, epic_name |-> NULL, remote_updated_at |-> NoDate]

(* -------------------------------------------------- resolving cached fields *)
\* The rows of the field cache in the order _load_project_fields returns them
\* (primary-key order).
RECURSIVE RowsInOrder(_)
RowsInOrder(rows) ==
  IF rows = {} THEN <<>>
  ELSE LET first == CHOOSE r \in rows : \A q \in rows : r.id <= q.id
       IN <<first>> \o RowsInOrder(rows \ {first})

\* The first element of seq that satisfies Test, or none
FirstWhere(seq, Test(_), none) ==
  LET hits == {i \in 1..Len(seq) : Test(seq[i])}
  IN IF hits = {} THEN none ELSE seq[CHOOSE i \in hits : \A j \in hits : i <= j]

NoField == [id |-> 0, field_id |-> NULL, field_name |-> NULL, field_type |-> NULL,
            shape |-> "none", entries |-> <<>>]

\* _resolve_status_field: the first cached field named "status", whatever its type
_resolve_status_field(rows) ==
  FirstWhere(RowsInOrder(rows), LAMBDA f : Lower(f.field_name) = "status", NoField)

\* resolve_iteration_field: the first cached field of iteration type or named "iteration"
resolve_iteration_field(rows) ==
  FirstWhere(RowsInOrder(rows),
             LAMBDA f : Lower(f.field_type) \in {"iteration", "projectv2iterationfield"}
                        \/ Lower(f.field_name) = "iteration",
             NoField)

EPIC_FIELD_ALIASES == {"epic", "épico", "epico", "parent issue", "parent", "epic link"}

\* alias in field_name (substring test) for the field names of the model
Contains(name, alias) ==
  name = alias \/ <<name, alias>> \in {<<"my epics", "epic">>, <<"parent issue", "parent">>,
                                        <<"epic link", "epic">>}
ContainsAlias(name) == \E alias \in EPIC_FIELD_ALIASES : Contains(name, alias)

\* The resolution by name alone
resolve_epic_field_of_any_type(rows) ==
  FirstWhere(RowsInOrder(rows), LAMBDA f : ContainsAlias(Lower(f.field_name)), NoField)

\* resolve_epic_field: the first cached single-select field whose name contains an alias
resolve_epic_field(rows) ==
  FirstWhere(RowsInOrder(rows),
             LAMBDA f : Lower(f.field_type) \in {"single_select", "projectv2singleselectfield"}
                        /\ ContainsAlias(Lower(f.field_name)),
             NoField)

\* The matching that takes the first option with an id, whatever its name
MatchFirstOption(field, status_name) ==
  LET iterable == IF field.shape = "options" THEN field.entries ELSE <<>>
  IN FirstWhere(iterable, LAMBDA o : o.id # NULL /\ o.id # "", Opt(NULL, NULL)).id

\* _match_status_option: the id of the first option whose trimmed lower-cased
\* name equals the trimmed lower-cased status; NULL when there is none.  A dict
\* payload is searched under "options"/"values", which an iteration
\* configuration does not have.
_match_status_option(field, status_name) ==
  LET normalized == Lower(Strip(status_name))
      iterable == IF field.shape = "options" THEN field.entries ELSE <<>>
      NameOf(o) == IF o.name # NULL /\ o.name # "" THEN o.name ELSE o.title
      hit == FirstWhere(iterable,
                        LAMBDA o : NameOf(o) # NULL /\ Lower(Strip(NameOf(o))) = normalized
                                   /\ o.id # NULL /\ o.id # "",
                        Opt(NULL, NULL))
  IN hit.id

\* parse_date_value: the date of an ISO string, None for null and for a string
\* that is no ISO date
parse_date_value(value) == IF value = NoDate \/ value = BadDate THEN NoDate ELSE value

\* The iteration end that takes a duration that is no number as no days
compute_iteration_end_lenient(start, duration_value) ==
  IF start = NoDate THEN NoDate
  ELSE IF duration_value.kind \in {"int", "digits"} THEN start + duration_value.n
  ELSE start

\* compute_iteration_end: start + int(duration) days; None without a start or
\* with a duration that is missing, blank or not a number
compute_iteration_end(start, duration_value) ==
  IF start = NoDate \/ duration_value.kind \in {"none", "blank"} THEN NoDate
  ELSE IF duration_value.kind \notin {"int", "digits"} THEN NoDate
  ELSE start + duration_value.n

\* resolve_iteration_option: (title, start, end) of the cached iteration entry with this id
resolve_iteration_option(field, iteration_id) ==
  IF field = NoField \/ iteration_id = NULL \/ iteration_id = ""
  THEN [title |-> NULL, start |-> NoDate, end |-> NoDate]
  ELSE LET hit == FirstWhere(field.entries, LAMBDA o : o.id = iteration_id, Opt(NULL, NULL))
       IN IF hit.id = NULL THEN [title |-> NULL, start |-> NoDate, end |-> NoDate]
          ELSE [title |-> hit.title, start |-> parse_date_value(hit.startDate),
                end |-> compute_iteration_end(parse_date_value(hit.startDate), hit.duration)]

\* resolve_epic_option: the name of the cached epic option with this id
resolve_epic_option(field, epic_option_id) ==
  IF field = NoField \/ epic_option_id = NULL \/ epic_option_id = "" THEN NULL
  ELSE LET hit == FirstWhere(field.entries, LAMBDA o : o.id = epic_option_id, Opt(NULL, NULL))
       IN IF hit.id = NULL THEN NULL
          ELSE IF hit.name # NULL /\ hit.name # "" THEN hit.name ELSE hit.title


(* ------------------------------------------------------- remote mutations *)
\* A mutation request: [kind, item, field, value] with kind "update_single_select"
\* (value = option id), "clear" or "set_iteration" (value = iteration id).
Mutation(kind, item, field, value) == [kind |-> kind, item |-> item, field |-> field, value |-> value]

NoCatalogField == [id |-> NULL, name |-> NULL, dataType |-> NULL, shape |-> "none", entries |-> <<>>]

\* The remote mutation as a delta: setting the value the item holds removes it
ApplyRemotelyAsToggle(rem, f, opt, call, now) ==
  IF f.id = NULL \/ ~rem.items[call.item].present THEN [code |-> "400", remote |-> rem]
  ELSE IF call.kind # "clear" /\ opt.id = NULL THEN [code |-> "400", remote |-> rem]
  ELSE [code |-> "ok",
        remote |-> [rem EXCEPT !.items[call.item].updated_at = now,
                               !.items[call.item].status =
                                  IF f.name # "Status" THEN @
                                  ELSE IF call.kind = "clear" \/ @ = opt.name THEN NULL
                                  ELSE opt.name]]

\* The remote side applying a mutation on field f of the board: it rejects
\* (400) a mutation that names a field, option or item it does not have;
\* otherwise the value is set (a set-operation) and the item's updatedAt moves.
ApplyRemotely(rem, f, opt, call, now) ==
  IF f.id = NULL \/ ~rem.items[call.item].present THEN [code |-> "400", remote |-> rem]
  ELSE IF call.kind # "clear" /\ opt.id = NULL THEN [code |-> "400", remote |-> rem]
  ELSE [code |-> "ok",
        remote |-> [rem EXCEPT !.items[call.item].updated_at = now,
                               !.items[call.item].status =
                                  IF f.name # "Status" THEN @
                                  ELSE IF call.kind = "clear" THEN NULL ELSE opt.name]]

\* GithubGraphQLClient.execute for a mutation: net = "down" is a transport
\* failure (503), a rejection by the remote side is a 400.  Result: [code, remote].
execute(rem, call, now, net) ==
  IF net = "down" THEN [code |-> "503", remote |-> rem]
  ELSE ApplyRemotely(rem,
                     FirstWhere(rem.catalog, LAMBDA g : g.id = call.field, NoCatalogField),
                     FirstWhere(FirstWhere(rem.catalog, LAMBDA g : g.id = call.field, NoCatalogField).entries,
                                LAMBDA o : o.id = call.value, Opt(NULL, NULL)),
                     call, now)

(* ------------------------------------------------------------ local edits *)
\* ensure_timezone: None stays None, a datetime is normalised to UTC
ensure_timezone(value) == IF value = NoDate THEN NoDate ELSE value

\* The result of a step of the edit: the HTTP outcome ("ok" or the status code
\* raised), the item object, the mutations issued, how the remote call ended
\* ("none" when none was made) and the remote side after.
Result(code, item, calls, rpc, rem) ==
  [code |-> code, item |-> item, calls |-> calls, rpc |-> rpc, remote |-> rem]

\* One mutation sent through the client: the result of the call is the result
\* of the step (an HTTPException of execute propagates).
Issue(item, call, now, rem, net) ==
  Result(execute(rem, call, now, net).code, item, <<call>>, execute(rem, call, now, net).code,
         execute(rem, call, now, net).remote)

\* The mirroring that returns without a call when no option matches
MirrorStatusSilent(status_field, item, new_status, option_id, now, rem, net) ==
  IF new_status = NULL
  THEN Issue(item, Mutation("clear", item.item_node_id, status_field.field_id, NULL), now, rem, net)
  ELSE IF option_id = NULL THEN Result("ok", item, <<>>, "none", rem)
  ELSE Issue(item, Mutation("update_single_select", item.item_node_id, status_field.field_id, option_id),
             now, rem, net)

\* The part of _sync_remote_status inside "async with": clear the value
\* (new_status None) or set the option matched by name.
MirrorStatus(status_field, item, new_status, option_id, now, rem, net) ==
  IF new_status = NULL
  THEN Issue(item, Mutation("clear", item.item_node_id, status_field.field_id, NULL), now, rem, net)
  ELSE IF option_id = NULL THEN Result("422", item, <<>>, "none", rem)
  ELSE Issue(item, Mutation("update_single_select", item.item_node_id, status_field.field_id, option_id),
             now, rem, net)

\* The checks of _sync_remote_status before the client is opened.
\* net = "no_token" is an account without a stored credential.
WithStatusField(proj, status_field, item, new_status, now, rem, net) ==
  IF proj.project_node_id = NULL \/ proj.project_node_id = "" THEN Result("400", item, <<>>, "none", rem)
  ELSE IF item.item_node_id = NULL \/ item.item_node_id = "" THEN Result("400", item, <<>>, "none", rem)
  ELSE IF status_field = NoField THEN Result("422", item, <<>>, "none", rem)
  ELSE IF net = "no_token" THEN Result("400", item, <<>>, "none", rem)
  ELSE MirrorStatus(status_field, item, new_status,
                    IF new_status = NULL THEN NULL ELSE _match_status_option(status_field, new_status),
                    now, rem, net)

\* _sync_remote_status: resolve the cached Status field, then mirror the value
_sync_remote_status(proj, frows, item, new_status, now, rem, net) ==
  WithStatusField(proj, _resolve_status_field(frows), item, new_status, now, rem, net)

\* new_status of apply_local_project_item_updates: the trimmed string, None when blank
NormalizeStatus(raw_status) ==
  IF raw_status = NULL THEN NULL
  ELSE IF Strip(raw_status) = "" THEN NULL ELSE Strip(raw_status)

\* The end of the "status" block with the exception of the mirroring swallowed
SetStatusAnyway(mirrored, new_status) ==
  Result("ok", [mirrored.item EXCEPT !.status = new_status], mirrored.calls, mirrored.rpc,
         mirrored.remote)

\* The end of the "status" block: an exception of the mirroring propagates,
\* otherwise item.status is set.
SetStatus(mirrored, new_status) ==
  IF mirrored.code # "ok" THEN mirrored
  ELSE Result("ok", [mirrored.item EXCEPT !.status = new_status], mirrored.calls, mirrored.rpc,
              mirrored.remote)

\* The "status" block without the check against the status columns
StatusBlockForAnyColumn(proj, frows, item, new_status, now, rem, net) ==
  SetStatus(IF new_status # (IF item.status # NULL THEN Strip(item.status) ELSE NULL)
            THEN _sync_remote_status(proj, frows, item, new_status, now, rem, net)
            ELSE Result("ok", item, <<>>, "none", rem),
            new_status)

\* The "status" block with new_status computed: validate against the status
\* columns, mirror a changed value remotely, then set item.status.
StatusBlockFor(proj, frows, item, new_status, now, rem, net) ==
  IF new_status # NULL /\ proj.status_columns # <<>>
     /\ new_status \notin {c \in Range(proj.status_columns) : c # NULL /\ c # ""}
  THEN Result("422", item, <<>>, "none", rem)
  ELSE SetStatus(IF new_status # (IF item.status # NULL THEN Strip(item.status) ELSE NULL)
                 THEN _sync_remote_status(proj, frows, item, new_status, now, rem, net)
                 ELSE Result("ok", item, <<>>, "none", rem),
                 new_status)

\* The "status" block of apply_local_project_item_updates
StatusBlock(proj, frows, item, cs, now, rem, net) ==
  StatusBlockFor(proj, frows, item, NormalizeStatus(cs.status), now, rem, net)

\* The date blocks: each supplied key overwrites the attribute
DatesBlock(item, cs) ==
  [item EXCEPT !.start_date = IF "start_date" \in cs.keys THEN ensure_timezone(cs.start_date) ELSE @,
               !.end_date = IF "end_date" \in cs.keys THEN ensure_timezone(cs.end_date) ELSE @,
               !.due_date = IF "due_date" \in cs.keys THEN ensure_timezone(cs.due_date) ELSE @]

Or(a, b) == IF a # NULL /\ a # "" THEN a ELSE b

\* The "iteration_id" block with the option resolved: a present id takes
\* title/start/end from the cached iteration options, an absent one clears
\* the four attributes.
SetIteration(item, cs, resolved) ==
  IF cs.iteration_id # NULL /\ cs.iteration_id # ""
  THEN [item EXCEPT !.iteration_id = cs.iteration_id,
                    !.iteration = Or(IF "iteration_title" \in cs.keys THEN cs.iteration_title ELSE NULL,
                                     Or(resolved.title, item.iteration)),
                    !.iteration_start = resolved.start,
                    !.iteration_end = resolved.end]
  ELSE [item EXCEPT !.iteration_id = NULL, !.iteration = NULL,
                    !.iteration_start = NoDate, !.iteration_end = NoDate]

\* The "iteration_id" block of apply_local_project_item_updates
IterationBlock(frows, item, cs) ==
  IF "iteration_id" \in cs.keys
  THEN SetIteration(item, cs, resolve_iteration_option(resolve_iteration_field(frows), cs.iteration_id))
  ELSE item

\* The epic block with its inputs read: a present option id takes the name
\* from the override or the cached epic options, an absent one clears the id
\* and keeps a supplied name.
SetEpic(item, epic_option_id, explicit_name, cached_name) ==
  IF epic_option_id # NULL /\ epic_option_id # ""
  THEN [item EXCEPT !.epic_option_id = epic_option_id,
                    !.epic_name = Or(explicit_name, Or(cached_name, item.epic_name))]
  ELSE [item EXCEPT !.epic_option_id = NULL,
                    !.epic_name = IF explicit_name # NULL /\ Strip(explicit_name) # ""
                                  THEN Strip(explicit_name) ELSE NULL]

\* The epic block of apply_local_project_item_updates
EpicBlock(frows, item, cs) ==
  IF cs.keys \cap {"epic_option_id", "epic_name"} # {}
  THEN SetEpic(item,
               IF "epic_option_id" \in cs.keys THEN cs.epic_option_id ELSE NULL,
               IF "epic_name" \in cs.keys THEN cs.epic_name ELSE NULL,
               resolve_epic_option(resolve_epic_field(frows),
                                   IF "epic_option_id" \in cs.keys THEN cs.epic_option_id ELSE NULL))
  ELSE item

\* The keys that make has_changes true
ChangeKeys == {"status", "start_date", "end_date", "due_date", "iteration_id", "epic_option_id", "epic_name"}

\* The stamp of the time alone
StampWithoutEditor(item, cs, editor_id, now) ==
  IF cs.keys \cap ChangeKeys # {} THEN [item EXCEPT !.last_local_edit_at = now] ELSE item

\* if has_changes: stamp the editor and the time
Stamp(item, cs, editor_id, now) ==
  IF cs.keys \cap ChangeKeys # {}
  THEN [item EXCEPT !.last_local_edit_at = now, !.last_local_edit_by = editor_id]
  ELSE item

\* apply_local_project_item_updates after its status block (st = its result)
AfterStatus(frows, cs, editor_id, now, st) ==
  IF st.code # "ok" THEN st
  ELSE Result("ok",
              Stamp(EpicBlock(frows, IterationBlock(frows, DatesBlock(st.item, cs), cs), cs),
                    cs, editor_id, now),
              st.calls, st.rpc, st.remote)

\* The date check skipped when the changeset also has a status
EndBeforeStartWithoutStatus(cs) ==
  /\ "status" \notin cs.keys
  /\ {"start_date", "end_date"} \subseteq cs.keys
  /\ cs.start_date # NoDate /\ cs.end_date # NoDate
  /\ cs.end_date < cs.start_date

\* The date check at the head of apply_local_project_item_updates
EndBeforeStart(cs) ==
  /\ {"start_date", "end_date"} \subseteq cs.keys
  /\ ensure_timezone(cs.start_date) # NoDate
  /\ ensure_timezone(cs.end_date) # NoDate
  /\ ensure_timezone(cs.end_date) < ensure_timezone(cs.start_date)

\* apply_local_project_item_updates
apply_local_project_item_updates(proj, frows, item, cs, editor_id, now, rem, net) ==
  IF cs.keys = {} THEN Result("ok", item, <<>>, "none", rem)
  ELSE IF EndBeforeStart(cs) THEN Result("422", item, <<>>, "none", rem)
  ELSE AfterStatus(frows, cs, editor_id, now,
                   IF "status" \in cs.keys THEN StatusBlock(proj, frows, item, cs, now, rem, net)
                   ELSE Result("ok", item, <<>>, "none", rem))

\* The keys update_project_item hands on to apply_local_project_item_updates
UpdateKeys == {"start_date", "end_date", "due_date", "iteration_id", "iteration_title", "status",
               "epic_option_id", "epic_name"}

\* update_project_item without the comparison of the timestamps
UpdateLoadedUnchecked(proj, frows, item, cs, editor_id, now, rem, net) ==
  IF cs.keys \cap UpdateKeys = {} THEN Result("422", item, <<>>, "none", rem)
  ELSE apply_local_project_item_updates(proj, frows, item, [cs EXCEPT !.keys = @ \cap UpdateKeys],
                                        editor_id, now, rem, net)

\* update_project_item once the item is loaded: 409 for a stale client view,
\* 422 for an empty changeset, else apply_local_project_item_updates.
UpdateLoaded(proj, frows, item, cs, editor_id, now, rem, net) ==
  IF "remote_updated_at" \in cs.keys /\ cs.remote_updated_at # NoDate
     /\ item.remote_updated_at # NoDate /\ cs.remote_updated_at < item.remote_updated_at
  THEN Result("409", item, <<>>, "none", rem)
  ELSE IF cs.keys \cap UpdateKeys = {} THEN Result("422", item, <<>>, "none", rem)
  ELSE apply_local_project_item_updates(proj, frows, item, [cs EXCEPT !.keys = @ \cap UpdateKeys],
                                        editor_id, now, rem, net)

\* The handler of PATCH /projects/current/items/{item_id} up to its commit:
\* 404 for an unknown item, else as above.
update_project_item(proj, frows, rows, pk, cs, editor_id, now, rem, net) ==
  IF {r \in rows : r.id = pk} = {} THEN Result("404", NoRow, <<>>, "none", rem)
  ELSE UpdateLoaded(proj, frows, CHOOSE r \in rows : r.id = pk, cs, editor_id, now, rem, net)

(* ------------------------------------------------------------------ state *)
VARIABLES
  remote,    \* the remote board: [catalog, items], items[n] = [present, status, variant, updated_at]
  project,   \* the GithubProject row: [project_node_id, field_mappings, status_columns, last_synced_at]
  fields,    \* the committed GithubProjectField rows of the project
  items,     \* the committed ProjectItem rows
  serial,    \* the autoincrement counters of the two tables: [field, item]
  clock,     \* the current time
  last,      \* what the last operation was and how it ended
  runs,      \* the full resyncs in flight, each with its own database session
  scheduler, \* the global scheduler of the process and the run of its job
  pager,     \* one call of fetch_project_items and the board it pages through
  projects,  \* the GithubProject rows of all accounts, with their field rows and members
  svc        \* one call of a function of the service layer: its arguments, its progress, its result

vars == <<remote, project, fields, items, serial, clock, last, runs, scheduler, pager, projects, svc>>

\* The record kept in "last"; an operation fills in what applies to it
\* (repeat: the operation before was a successful full sync as well).
\* The callers of sync_github_project that can be in flight together: the
\* sync route of a request and the scheduler's job, each with its own session
RunIds == {"route", "job"}

\* The unit of work of a session: nothing pending, a ProjectItem added, or a
\* loaded ProjectItem with attributes assigned
NoWrite == [kind |-> "none"]
Added(p, now) == [kind |-> "insert", payload |-> p, now |-> now]
Modified(old, new) == [kind |-> "update", old |-> old, new |-> new]

\* A run that has not started: its position, the fetched snapshot, the index
\* of the next payload, the pending object, the statements sent and not yet
\* committed, the count, its place in the order of the commits, and the
\* last_synced_at it has assigned to its project object
IdleRun ==
  [pc |-> "idle", payloads |-> <<>>, k |-> 1, pend |-> NoWrite, ins |-> {}, upd |-> {},
   count |-> 0, order |-> 0, stamp |-> NoDate]

\* A webhook payload: whether the body is JSON, and the keys the handlers read
\* (action, projects_v2_item.node_id, project_v2.node_id, issue/pull_request.node_id)
Body(json, action, item, proj, content) ==
  [json |-> json, action |-> action, item_node_id |-> item, project_node_id |-> proj,
   content_node_id |-> content]

\* hmac.new(secret, payload, sha256).hexdigest(): an ASCII string that depends
\* on the secret and on every byte of the payload
Hexdigest(secret, payload) == <<"hex", secret, payload>>

\* An X-Hub-Signature-256 header: the text before the hash, the hash, and
\* whether the characters of the hash are ASCII
Signature(scheme, hash, ascii) == [scheme |-> scheme, hash |-> hash, ascii |-> ascii]
Signed(secret, payload) == Signature("sha256=", Hexdigest(secret, payload), TRUE)
NoSignature == Signature(NULL, <<"hex", NULL, NULL>>, TRUE)

\* A webhook request (with the secret configured when it arrives) and the
\* answer to it
Request(event, signature, body, secret) ==
  [event |-> event, signature |-> signature, body |-> body, secret |-> secret]
NoRequest == Request(NULL, NoSignature, Body(FALSE, NULL, NULL, NULL, NULL), "")
Response(status, synced, failure, deleted) ==
  [status |-> status, synced |-> synced, failure |-> failure, deleted |-> deleted]
NoResponse == Response(NULL, FALSE, NULL, {})

\* The projects that sync_all_projects finds, in the order of the select:
\* the project of this store between two others
Registered == <<"PVT_0", "PVT_1", "PVT_2">>

\* The session of a job run: what a failed sync has flushed and not committed
NoSession == [dirty |-> FALSE, fields |-> {}, serial |-> 0, fm |-> <<>>]

\* A job that is not running: its position, the index of the next project,
\* the attempts so far, and its two counters
IdleJob ==
  [pc |-> "idle", k |-> 1, attempts |-> <<>>, synced_count |-> 0, error_count |-> 0,
   session |-> NoSession]

\* The module-level scheduler: the instance the global names (0 for None),
\* the instances created so far, the instances that run with their jobs
NoScheduler == [global |-> 0, made |-> 0, alive |-> {}, job |-> IdleJob]

\* No request for an epic option: the option id, name and color asked for and
\* the option id the operation returned
NoEpicRequest == [option_id |-> NULL, name |-> NULL, color |-> NULL, returned |-> NULL]

\* No project configured by any account: the rows, the members (user, project
\* id) and the autoincrement counters of the project and field tables
NoProjects == [rows |-> {}, members |-> {}, serial |-> [project |-> 0, field |-> 0]]

\* No call of a service function in progress
NoCall == [fn |-> "none", pc |-> "idle", args |-> <<>>, sent |-> <<>>, result |-> <<>>]

\* No cursor (None): the cursors of the board are the positions 1, 2, ...
NoCursor == 0

\* The connection of a response that has no node
NoItems == [pageInfo |-> [hasNextPage |-> FALSE, endCursor |-> NoCursor], nodes |-> <<>>]

\* No response of the GraphQL endpoint at hand
NoData == [node |-> FALSE, items |-> NoItems]

\* No call of fetch_project_items in progress
NoPager == [pc |-> "idle", size |-> 0, added |-> 0, exists |-> TRUE, after |-> NoCursor,
            data |-> NoData, sent |-> <<>>, got |-> <<>>, items |-> <<>>]

Label(op, outcome) ==
  [op |-> op, outcome |-> outcome, pk |-> 0, cs |-> NoChangeset, calls |-> <<>>,
   rpc |-> "none", count |-> 0, snapshot |-> <<>>, catalog |-> <<>>, repeat |-> FALSE,
   item |-> NoRow, request |-> NoRequest, response |-> NoResponse, epic |-> NoEpicRequest]

\* The option names the remote Status field offers
RemoteStatusNames(catalog) ==
  UNION {{f.entries[k].name : k \in 1..Len(f.entries)} : f \in {g \in Range(catalog) : g.name = "Status"}}

\* upsert_github_project for an account without a project: the row is created
\* with the status columns derived from the catalog.
NewProject(fm) ==
  [project_node_id |-> "PVT_1", field_mappings |-> fm,
   status_columns |-> IF fm # <<>> THEN extract_status_columns(fm) ELSE <<>>,
   last_synced_at |-> NoDate]

\* The state after the project was configured (configure_github_project ->
\* upsert_github_project): the project row exists, its field rows mirror the
\* catalog fetched then, no item has been synced yet.
InitStore ==
  /\ remote \in [catalog : Catalogs,
                 items : {[n \in NodeIds |-> [present |-> (n = "n1"), status |-> NULL, variant |-> 1,
                                               updated_at |-> IF n = "n1" THEN 1 ELSE 0]]}]
  /\ project = NewProject(remote.catalog)
  /\ LET synced == IF remote.catalog # <<>> THEN sync_project_fields({}, 0, remote.catalog)
                   ELSE [rows |-> {}, serial |-> 0]
     IN /\ fields = synced.rows
        /\ serial = [field |-> synced.serial, item |-> 0]
  /\ items = {}
  /\ clock = 1
  /\ last = Label("init", "ok")
  /\ runs = [r \in RunIds |-> IdleRun]
  /\ scheduler = NoScheduler
  /\ pager = NoPager
  /\ projects = NoProjects
  /\ svc = NoCall

(* ---------------------------------------------------- the remote side moves *)
\* Someone edits an item on the remote board: it appears, disappears, moves to
\* another status column or has its other fields/content changed.
RemoteItemChange(n) ==
  /\ clock < MaxClock
  /\ LET old == remote.items[n]
         moved == {[old EXCEPT !.status = s] : s \in RemoteStatusNames(remote.catalog) \cup {NULL}}
         edited == {[old EXCEPT !.variant = v] : v \in {1, 2}}
         after == IF old.present THEN (moved \cup edited \cup {[old EXCEPT !.present = FALSE]}) \ {old}
                  ELSE IF old.updated_at = 0 THEN {[old EXCEPT !.present = TRUE]}
                  ELSE {}   \* a removed node id never comes back
     IN \E r \in after : remote' = [remote EXCEPT !.items[n] = [r EXCEPT !.updated_at = clock + 1]]
  /\ clock' = clock + 1
  /\ last' = Label("remote", "ok")
  /\ UNCHANGED <<project, fields, items, serial, runs, scheduler, pager, projects, svc>>

\* Someone reconfigures the fields of the remote project; an item whose status
\* option no longer exists loses its status value.
RemoteCatalogChange(c) ==
  /\ clock < MaxClock
  /\ c # remote.catalog
  /\ remote' = [catalog |-> c,
                items |-> [n \in NodeIds |->
                  IF remote.items[n].status \in RemoteStatusNames(c) \cup {NULL}
                  THEN remote.items[n]
                  ELSE [remote.items[n] EXCEPT !.status = NULL, !.updated_at = clock + 1]]]
  /\ clock' = clock + 1
  /\ last' = Label("remote", "ok")
  /\ UNCHANGED <<project, fields, items, serial, runs, scheduler, pager, projects, svc>>

(* ------------------------------------------------------------ full resync *)
\* sync_github_project as one request (POST /github/sync/{project_id}): fetch
\* the metadata, rewrite the field rows, fetch the items, upsert them, commit.
\* net tells which remote call fails, if any; a failed request commits nothing.
SyncGithubProject(net) ==
  /\ clock < MaxClock
  /\ clock' = clock + 1
  /\ UNCHANGED <<remote, runs, scheduler, pager, projects, svc>>
  /\ IF net # "ok"
     THEN /\ last' = Label("sync", net)
          /\ UNCHANGED <<project, fields, items, serial, runs, scheduler>>
     ELSE LET now == clock + 1
              fm == remote.catalog
              synced == sync_project_fields(fields, serial.field, fm)
              payloads == fetch_project_items(remote.items)
              upserted == upsert_project_items(items, serial.item, payloads, now)
          IN /\ fields' = synced.rows
             /\ items' = upserted.rows
             /\ serial' = [field |-> synced.serial, item |-> upserted.serial]
             /\ project' = [project EXCEPT !.field_mappings = fm, !.last_synced_at = now]
             /\ last' = [Label("sync", "ok") EXCEPT !.count = upserted.count,
                                                    !.snapshot = payloads, !.catalog = fm,
                                                    !.repeat = (last.op = "sync" /\ last.outcome = "ok")]

(* ------------------------------------------------------- the edit requests *)
\* The request bodies (ProjectItemUpdateRequest, keys = the fields that were set)
StatusInputs == {NULL, " ", "Done", " Done", "done", "Backlog", "Review"}

Changesets ==
  LET cs(keys) == [NoChangeset EXCEPT !.keys = keys]
  IN {[cs({"status"}) EXCEPT !.status = s] : s \in StatusInputs}
     \cup {[cs({"status", "remote_updated_at"}) EXCEPT !.status = "Done", !.remote_updated_at = t] :
             t \in 1..2}
     \cup {[cs({"start_date", "end_date"}) EXCEPT !.start_date = 3, !.end_date = e] : e \in {2, 4}}
     \cup {[cs({"status", "start_date", "end_date"}) EXCEPT !.status = "Done", !.start_date = 3,
                                                             !.end_date = 2]}
     \cup {[cs({"due_date"}) EXCEPT !.due_date = d] : d \in {NoDate, 5}}
     \cup {[cs({"iteration_id"}) EXCEPT !.iteration_id = i] : i \in {NULL, "it1", "itX"}}
     \cup {[cs({"iteration_id", "iteration_title"}) EXCEPT !.iteration_id = "it1",
                                                            !.iteration_title = "Custom"]}
     \cup {[cs({"status", "iteration_id"}) EXCEPT !.status = "Backlog", !.iteration_id = "it1"]}
     \cup {[cs({"epic_option_id"}) EXCEPT !.epic_option_id = e] : e \in {NULL, "e1"}}
     \cup {[cs({"epic_name"}) EXCEPT !.epic_name = "Big"]}
     \cup {cs({"remote_updated_at"}), cs({"iteration_title"})}

\* Does the request reach a remote call?  (The state of the network only
\* matters for those.)
ReachesRemote(pk, cs) ==
  LET done == update_project_item(project, fields, items, pk, cs, "u1", clock + 1, remote, "ok")
  IN done.calls # <<>>

\* PATCH /projects/current/items/{item_id}: the handler commits the item only
\* when apply_local_project_item_updates returned; an HTTPException leaves the
\* session uncommitted.
UpdateProjectItem(pk, cs, editor_id, net) ==
  /\ clock < MaxClock
  /\ net # "ok" => ReachesRemote(pk, cs)
  /\ LET done == update_project_item(project, fields, items, pk, cs, editor_id, clock + 1, remote, net)
     IN /\ items' = IF done.code = "ok"
                    THEN {IF r.id = pk THEN done.item ELSE r : r \in items}
                    ELSE items
        /\ remote' = done.remote
        /\ last' = [Label("edit", done.code) EXCEPT
                      !.pk = pk, !.cs = cs, !.calls = done.calls, !.rpc = done.rpc,
                      !.repeat = (last.op = "edit" /\ last.outcome = "crash"
                                  /\ last.pk = pk /\ last.cs = cs)]
  /\ clock' = clock + 1
  /\ UNCHANGED <<project, fields, serial, runs, scheduler, pager, projects, svc>>

\* update_project_item interrupted by the end of the process after the remote
\* mutation returned and before db.commit(): the remote board has the new
\* value, the store has nothing of the edit
CrashBeforeCommit(pk, cs, editor_id) ==
  /\ clock < MaxClock
  /\ ReachesRemote(pk, cs)
  /\ LET done == update_project_item(project, fields, items, pk, cs, editor_id, clock + 1, remote, "ok")
     IN /\ done.code = "ok"
        /\ remote' = done.remote
        /\ last' = [Label("edit", "crash") EXCEPT !.pk = pk, !.cs = cs, !.calls = done.calls,
                                                  !.rpc = done.rpc, !.item = done.item]
  /\ clock' = clock + 1
  /\ UNCHANGED <<project, fields, items, serial, runs, scheduler, pager, projects, svc>>

Next ==
  \/ \E n \in NodeIds : RemoteItemChange(n)
  \/ \E c \in Catalogs : RemoteCatalogChange(c)
  \/ \E net \in {"ok", "metadata_failed", "items_failed"} : SyncGithubProject(net)
  \/ \E pk \in {r.id : r \in items} \cup {0}, cs \in Changesets, ed \in Editors,
          net \in {"ok", "down", "no_token"} : UpdateProjectItem(pk, cs, ed, net)
  \/ \E pk \in {r.id : r \in items}, cs \in Changesets, ed \in Editors : CrashBeforeCommit(pk, cs, ed)

Spec == InitStore /\ [][Next]_vars

(* ------------------------------------------------ concurrent full resyncs *)
\* The number of remote changes while the two runs are in flight
MaxDrift == 1

\* The runs whose transaction is open
InFlight(r) == runs[r].pc \in {"metadata", "items", "flushed"}
Others(r) == {o \in RunIds \ {r} : InFlight(o)}

\* The attributes assigned to a loaded row by the loop of upsert_project_items
Assigned(item, p, now) == CHOOSE x \in UpsertOne({item}, 0, p, now).rows : TRUE

\* The UPDATE that the unit of work sends for a loaded row sets the columns
\* whose value differs from the loaded one, on the row as committed
ApplyUpdate(c, u) == [a \in DOMAIN c |-> IF u.new[a] # u.old[a] THEN u.new[a] ELSE c[a]]

\* What the database does with the pending statement of a run: an INSERT of a
\* committed item_node_id violates the unique index, an INSERT of a node id
\* that an open transaction has inserted waits for it, an UPDATE of a row
\* that an open transaction has updated waits for it
FlushOutcome(r) ==
  IF runs[r].pend.kind = "insert"
  THEN IF \E c \in items : c.item_node_id = runs[r].pend.payload.node_id THEN "IntegrityError"
       ELSE IF \E o \in Others(r) : \E i \in runs[o].ins :
                  i.item_node_id = runs[r].pend.payload.node_id THEN "waits"
       ELSE "ok"
  ELSE IF runs[r].pend.kind = "update"
  THEN IF \E o \in Others(r) : \E u \in runs[o].upd : u.old.id = runs[r].pend.old.id THEN "waits"
       ELSE "ok"
  ELSE "ok"

\* The run after its pending statement was sent
AfterFlush(run) ==
  IF run.pend.kind = "insert"
  THEN [run EXCEPT !.ins = @ \cup {InsertedRow(serial.item, run.pend.payload, run.pend.now)},
                   !.pend = NoWrite]
  ELSE IF run.pend.kind = "update" THEN [run EXCEPT !.upd = @ \cup {run.pend}, !.pend = NoWrite]
  ELSE run

\* The item serial after the pending statement was sent
SerialAfterFlush(run) ==
  IF run.pend.kind = "insert" THEN [serial EXCEPT !.item = @ + 1] ELSE serial

\* The run after the exception: the transaction is rolled back
Failed(run) == [run EXCEPT !.pc = "failed", !.pend = NoWrite, !.ins = {}, !.upd = {}]

\* One pass of the loop of upsert_project_items: select the row of the
\* payload, assign its attributes or add a new object, count it
Visit(run, p, now) ==
  LET found == {c \in items : c.item_node_id = p.node_id}
  IN [run EXCEPT !.pend = IF found # {}
                          THEN Modified(CHOOSE c \in found : TRUE,
                                        Assigned(CHOOSE c \in found : TRUE, p, now))
                          ELSE Added(p, now),
                 !.k = @ + 1, !.count = @ + 1]

\* sync_github_project up to its first flush: the catalog is fetched and the
\* field rows are refreshed from it
BeginSync(r) ==
  /\ runs[r].pc = "idle"
  /\ fields' = sync_project_fields(fields, serial.field, remote.catalog).rows
  /\ serial' = [serial EXCEPT !.field = sync_project_fields(fields, serial.field, remote.catalog).serial]
  /\ runs' = [runs EXCEPT ![r].pc = "metadata"]
  /\ last' = Label("begin", r)
  /\ UNCHANGED <<remote, project, items, clock, scheduler, pager, projects, svc>>

\* sync_github_project fetches the snapshot of the items
FetchItems(r) ==
  /\ runs[r].pc = "metadata"
  /\ runs' = [runs EXCEPT ![r].pc = "items", ![r].payloads = fetch_project_items(remote.items)]
  /\ last' = Label("fetch", r)
  /\ UNCHANGED <<remote, project, fields, items, serial, clock, scheduler, pager, projects, svc>>

\* One pass of the loop: the select autoflushes the object of the pass before
UpsertNext(r) ==
  /\ runs[r].pc = "items"
  /\ runs[r].k <= Len(runs[r].payloads)
  /\ FlushOutcome(r) # "waits"
  /\ IF FlushOutcome(r) = "IntegrityError"
     THEN /\ runs' = [runs EXCEPT ![r] = Failed(@)]
          /\ last' = Label("upsert", "IntegrityError")
          /\ UNCHANGED serial
     ELSE /\ runs' = [runs EXCEPT ![r] = Visit(AfterFlush(@), @.payloads[@.k], clock)]
          /\ serial' = SerialAfterFlush(runs[r])
          /\ last' = Label("upsert", r)
  /\ UNCHANGED <<remote, project, fields, items, clock, scheduler, pager, projects, svc>>

\* The flush that ends upsert_project_items: the last object and the
\* project row, which an open transaction that has updated it holds
FlushItems(r) ==
  /\ runs[r].pc = "items"
  /\ runs[r].k > Len(runs[r].payloads)
  /\ FlushOutcome(r) # "waits"
  /\ \A o \in Others(r) : runs[o].pc # "flushed"
  /\ IF FlushOutcome(r) = "IntegrityError"
     THEN /\ runs' = [runs EXCEPT ![r] = Failed(@)]
          /\ last' = Label("flush", "IntegrityError")
          /\ UNCHANGED serial
     ELSE /\ runs' = [runs EXCEPT ![r] = [AfterFlush(@) EXCEPT !.pc = "flushed", !.stamp = clock]]
          /\ serial' = SerialAfterFlush(runs[r])
          /\ last' = Label("flush", r)
  /\ UNCHANGED <<remote, project, fields, items, clock, scheduler, pager, projects, svc>>

\* The project row stamped with the time of the commit, not of the assignment
CommittedLate(proj, fm, stamp) == [proj EXCEPT !.field_mappings = fm, !.last_synced_at = clock + 1]

\* The project row after the commit of a run: the field_mappings and the
\* last_synced_at that the run assigned
Committed(proj, fm, stamp) == [proj EXCEPT !.field_mappings = fm, !.last_synced_at = stamp]

\* A fetch of sync_github_project raises (the metadata before the field
\* refresh, the items after it): the run ends and its session is closed
\* without a commit
FailFetch(r) ==
  /\ runs[r].pc \in {"idle", "metadata"}
  /\ runs' = [runs EXCEPT ![r] = [Failed(@) EXCEPT !.pc = "aborted"]]
  /\ last' = Label("fetch", IF runs[r].pc = "idle" THEN "metadata_failed" ELSE "items_failed")
  /\ UNCHANGED <<remote, project, fields, items, serial, clock, scheduler, pager, projects, svc>>

\* db.commit(): the statements of the transaction become the committed rows
CommitSync(r) ==
  /\ runs[r].pc = "flushed"
  /\ items' = {IF \E u \in runs[r].upd : u.old.id = c.id
               THEN ApplyUpdate(c, CHOOSE u \in runs[r].upd : u.old.id = c.id)
               ELSE c : c \in items} \cup runs[r].ins
  /\ project' = Committed(project, remote.catalog, runs[r].stamp)
  /\ runs' = [runs EXCEPT ![r].pc = "done", ![r].ins = {}, ![r].upd = {},
                          ![r].order = 1 + Cardinality({o \in RunIds : runs[o].pc = "done"})]
  /\ last' = [Label("commit", r) EXCEPT !.count = runs[r].count]
  /\ UNCHANGED <<remote, fields, serial, clock, scheduler, pager, projects, svc>>

\* The board changes while runs are in flight
Drift(n) ==
  /\ clock <= MaxDrift
  /\ \E r \in RunIds : runs[r].pc # "idle"
  /\ RemoteItemChange(n)

\* The store when the runs start: the project as created, with or without a
\* first full sync behind it
InitConc ==
  /\ remote \in [catalog : Catalogs,
                 items : {[n \in NodeIds |-> [present |-> (n = "n1"), status |-> NULL, variant |-> 1,
                                               updated_at |-> IF n = "n1" THEN 1 ELSE 0]]}]
  /\ project = NewProject(remote.catalog)
  /\ fields = sync_project_fields({}, 0, remote.catalog).rows
  /\ \E first \in BOOLEAN :
       /\ items = IF first THEN upsert_project_items({}, 0, fetch_project_items(remote.items), 1).rows
                  ELSE {}
       /\ serial = [field |-> sync_project_fields({}, 0, remote.catalog).serial,
                    item |-> IF first THEN 1 ELSE 0]
  /\ clock = 1
  /\ last = Label("init", "ok")
  /\ runs = [r \in RunIds |-> IdleRun]
  /\ scheduler = NoScheduler
  /\ pager = NoPager
  /\ projects = NoProjects
  /\ svc = NoCall

NextConc ==
  \/ \E r \in RunIds : BeginSync(r)
  \/ \E r \in RunIds : FetchItems(r)
  \/ \E r \in RunIds : UpsertNext(r)
  \/ \E r \in RunIds : FlushItems(r)
  \/ \E r \in RunIds : CommitSync(r)
  \/ \E r \in RunIds : FailFetch(r)
  \/ \E n \in NodeIds : Drift(n)

SpecConc == InitConc /\ [][NextConc]_vars

(* --------------------------------------------------------------- webhooks *)
\* The content (issue or pull request) that an item of the board wraps

\* sync_github_project as its callers see it: the rows after the commit, or
\* the exception of the remote fetch with nothing committed
sync_github_project(proj, frows, rows, ser, rem, now, net) ==
  IF net # "ok"
  THEN [code |-> net, project |-> proj, fields |-> frows, items |-> rows, serial |-> ser]
  ELSE [code |-> "ok",
        project |-> [proj EXCEPT !.field_mappings = rem.catalog, !.last_synced_at = now],
        fields |-> sync_project_fields(frows, ser.field, rem.catalog).rows,
        items |-> upsert_project_items(rows, ser.item, fetch_project_items(rem.items), now).rows,
        serial |-> [field |-> sync_project_fields(frows, ser.field, rem.catalog).serial,
                    item |-> upsert_project_items(rows, ser.item, fetch_project_items(rem.items),
                                                  now).serial]]

\* verify_webhook_signature: 401 unless the header starts with "sha256=" and
\* the rest equals the digest of the payload; compare_digest raises TypeError
\* for a string with non-ASCII characters, which the route does not catch
verify_webhook_signature(payload, signature, secret) ==
  IF signature.scheme # "sha256=" THEN "401"
  ELSE IF ~signature.ascii THEN "500"
  ELSE IF signature.hash # Hexdigest(secret, payload) THEN "401"
  ELSE "ok"

\* What a handler leaves behind: the store, whether a resync was committed,
\* the exception it caught, the rows it deleted
Handled(proj, frows, rows, ser, synced, failure, deleted) ==
  [project |-> proj, fields |-> frows, items |-> rows, serial |-> ser, synced |-> synced,
   failure |-> failure, deleted |-> deleted]

\* The end of a handler that called sync_github_project
AfterSync(proj, frows, rows, ser, done) ==
  IF done.code = "ok" THEN Handled(done.project, done.fields, done.items, done.serial, TRUE, NULL, {})
  ELSE Handled(proj, frows, rows, ser, FALSE, done.code, {})

\* get_github_token and sync_github_project inside the try of a handler
SyncInHandler(proj, frows, rows, ser, rem, now, net) ==
  IF net = "no_token" THEN Handled(proj, frows, rows, ser, FALSE, "400", {})
  ELSE AfterSync(proj, frows, rows, ser, sync_github_project(proj, frows, rows, ser, rem, now, net))

\* handle_project_v2_item_event: nothing without the node ids or for an
\* unknown project; "deleted" deletes the row of the item; any other action
\* syncs the project
handle_project_v2_item_event(proj, frows, rows, ser, event_action, body, rem, now, net) ==
  IF body.item_node_id = NULL \/ body.project_node_id = NULL
  THEN Handled(proj, frows, rows, ser, FALSE, NULL, {})
  ELSE IF body.project_node_id # proj.project_node_id
  THEN Handled(proj, frows, rows, ser, FALSE, NULL, {})
  ELSE IF event_action = "deleted"
  THEN Handled(proj, frows, {r \in rows : r.item_node_id # body.item_node_id}, ser, FALSE, NULL,
               {r \in rows : r.item_node_id = body.item_node_id})
  ELSE SyncInHandler(proj, frows, rows, ser, rem, now, net)

\* handle_issues_event and handle_pull_request_event: nothing without the
\* node id or without an item of that content; otherwise sync the project of
\* the item
handle_content_event(proj, frows, rows, ser, event_action, body, rem, now, net) ==
  IF body.content_node_id = NULL THEN Handled(proj, frows, rows, ser, FALSE, NULL, {})
  ELSE IF {r \in rows : ContentNodeId(r.item_node_id) = body.content_node_id} = {}
  THEN Handled(proj, frows, rows, ser, FALSE, NULL, {})
  ELSE SyncInHandler(proj, frows, rows, ser, rem, now, net)

\* WEBHOOK_HANDLERS
WEBHOOK_HANDLERS == {"project_v2_item", "issues", "pull_request"}

\* The answer of the route: the status code, the body, the store
Answer(code, status, h) == [code |-> code, status |-> status, handled |-> h]

\* The route from the lookup of the handler on: the handlers catch their
\* exceptions themselves, so the route answers "processed" after any of them
Dispatch(proj, frows, rows, ser, req, rem, now, net) ==
  IF req.event \notin WEBHOOK_HANDLERS
  THEN Answer("200", "ignored", Handled(proj, frows, rows, ser, FALSE, NULL, {}))
  ELSE IF req.event = "project_v2_item"
  THEN Answer("200", "processed",
              handle_project_v2_item_event(proj, frows, rows, ser, req.body.action, req.body, rem, now, net))
  ELSE Answer("200", "processed",
              handle_content_event(proj, frows, rows, ser, req.body.action, req.body, rem, now, net))

\* The route after the signature was verified: 500 for the TypeError, 400
\* for a body that is not JSON
Verified(proj, frows, rows, ser, req, rem, now, net, verdict) ==
  IF verdict # "ok" THEN Answer(verdict, NULL, Handled(proj, frows, rows, ser, FALSE, NULL, {}))
  ELSE IF ~req.body.json THEN Answer("400", NULL, Handled(proj, frows, rows, ser, FALSE, NULL, {}))
  ELSE Dispatch(proj, frows, rows, ser, req, rem, now, net)

\* receive_github_webhook: 400 without the event header, 401 without the
\* signature header, 500 without a configured secret, then the verification
receive_github_webhook(proj, frows, rows, ser, req, rem, now, net) ==
  IF req.event = NULL \/ req.event = ""
  THEN Answer("400", NULL, Handled(proj, frows, rows, ser, FALSE, NULL, {}))
  ELSE IF req.signature.scheme = NULL
  THEN Answer("401", NULL, Handled(proj, frows, rows, ser, FALSE, NULL, {}))
  ELSE IF req.secret = ""
  THEN Answer("500", NULL, Handled(proj, frows, rows, ser, FALSE, NULL, {}))
  ELSE Verified(proj, frows, rows, ser, req, rem, now, net,
                verify_webhook_signature(req.body, req.signature, req.secret))

\* The payloads that are delivered
ItemCreated == Body(TRUE, "created", "n1", "PVT_1", "c1")
ItemDeleted == Body(TRUE, "deleted", "n1", "PVT_1", "c1")
Bodies ==
  {ItemCreated, ItemDeleted,
   Body(TRUE, "edited", "n2", "PVT_1", "c2"),
   Body(TRUE, "edited", "n1", "PVT_X", "cX"),
   Body(TRUE, "edited", NULL, NULL, NULL)}

\* The requests that arrive: every event with every payload under the right
\* signature, and one payload with each kind of wrong signature, without the
\* event header, without a configured secret, and a body that is not JSON
Requests ==
  {Request(e, Signed("s3cret", b), b, "s3cret") :
     e \in WEBHOOK_HANDLERS \cup {"ping"}, b \in Bodies}
  \cup {Request("project_v2_item", g, ItemCreated, "s3cret") :
          g \in {NoSignature,
                 Signature("sha1=", Hexdigest("s3cret", ItemCreated), TRUE),
                 Signature("sha256=", <<"hex", "0xE9", ItemCreated>>, FALSE),
                 Signature("sha256=", <<"hex", "00", ItemCreated>>, TRUE),
                 Signed("s3cret", ItemDeleted),
                 Signed("guess", ItemCreated)}}
  \cup {Request("project_v2_item", Signed("s3cret", ItemCreated), ItemDeleted, "s3cret"),
        Request(NULL, Signed("s3cret", ItemCreated), ItemCreated, "s3cret"),
        Request(NULL, NoSignature, ItemCreated, "s3cret"),
        Request("issues", Signed("", ItemCreated), ItemCreated, ""),
        Request("issues", Signed("s3cret", Body(FALSE, NULL, NULL, NULL, NULL)),
                Body(FALSE, NULL, NULL, NULL, NULL), "s3cret")}

\* The request gets as far as sync_github_project
ReachesSync(req) ==
  receive_github_webhook(project, fields, items, serial, req, remote, clock + 1, "ok").handled.synced

\* POST /api/github/webhooks
ReceiveWebhook(req, net) ==
  /\ clock < MaxClock
  /\ net # "ok" => ReachesSync(req)
  /\ LET got == receive_github_webhook(project, fields, items, serial, req, remote, clock + 1, net)
     IN /\ project' = got.handled.project
        /\ fields' = got.handled.fields
        /\ items' = got.handled.items
        /\ serial' = got.handled.serial
        /\ last' = [Label("webhook", got.code) EXCEPT
                      !.request = req,
                      !.response = Response(got.status, got.handled.synced, got.handled.failure,
                                            got.handled.deleted)]
  /\ clock' = clock + 1
  /\ UNCHANGED <<remote, runs, scheduler, pager, projects, svc>>

NextHook ==
  \/ \E n \in NodeIds : RemoteItemChange(n)
  \/ \E req \in Requests, net \in {"ok", "metadata_failed", "items_failed", "no_token"} :
       ReceiveWebhook(req, net)

SpecHook == InitStore /\ [][NextHook]_vars

(* -------------------------------------------------------------- scheduler *)
\* The number of scheduler instances that are ever created
MaxStarts == 2

\* How the sync of one project ends
Outcomes == {"ok", "no_account", "no_token", "metadata_failed", "items_failed"}

\* The loop body with the exception of the attempt left uncaught
AttemptUncaught(job, p, outcome) ==
  IF outcome = "ok"
  THEN [job EXCEPT !.attempts = Append(@, [project |-> p, outcome |-> outcome]),
                   !.k = @ + 1, !.synced_count = @ + 1]
  ELSE [job EXCEPT !.attempts = Append(@, [project |-> p, outcome |-> outcome]), !.pc = "raised"]

\* The loop body of sync_all_projects: the attempt is counted as synced, or
\* its failure is caught and counted as an error, and the loop goes on
Attempt(job, p, outcome) ==
  IF outcome = "ok"
  THEN [job EXCEPT !.attempts = Append(@, [project |-> p, outcome |-> outcome]),
                   !.k = @ + 1, !.synced_count = @ + 1]
  ELSE [job EXCEPT !.attempts = Append(@, [project |-> p, outcome |-> outcome]),
                   !.k = @ + 1, !.error_count = @ + 1]

\* The store and the session after the attempt on the project of this store:
\* a sync that fails while paging the items has flushed its field rows and
\* assigned field_mappings in the session of the job
OwnAttempt(outcome, now) ==
  IF outcome = "ok"
  THEN [sync_github_project(project, fields, items, serial, remote, now, "ok") EXCEPT !.code = NoSession]
  ELSE [code |-> IF outcome = "items_failed"
                 THEN [dirty |-> TRUE,
                       fields |-> sync_project_fields(fields, serial.field, remote.catalog).rows,
                       serial |-> sync_project_fields(fields, serial.field, remote.catalog).serial,
                       fm |-> remote.catalog]
                 ELSE scheduler.job.session,
        project |-> project, fields |-> fields, items |-> items, serial |-> serial]

\* The store and the session after the attempt on another project: its
\* commit commits what the session holds
OtherAttempt(outcome) ==
  IF outcome = "ok" /\ scheduler.job.session.dirty
  THEN [code |-> NoSession,
        project |-> [project EXCEPT !.field_mappings = scheduler.job.session.fm],
        fields |-> scheduler.job.session.fields,
        items |-> items,
        serial |-> [serial EXCEPT !.field = scheduler.job.session.serial]]
  ELSE [code |-> scheduler.job.session, project |-> project, fields |-> fields, items |-> items,
        serial |-> serial]

\* The store and the session (under "code") after the attempt on project p
AfterAttempt(p, outcome, now) ==
  IF p = project.project_node_id THEN OwnAttempt(outcome, now) ELSE OtherAttempt(outcome)

\* The cron trigger fires: sync_all_projects opens its session and selects the projects
JobStart ==
  /\ clock < MaxClock
  /\ scheduler.global # 0
  /\ scheduler.job.pc \in {"idle", "done"}
  /\ scheduler' = [scheduler EXCEPT !.job = [IdleJob EXCEPT !.pc = "running"]]
  /\ clock' = clock + 1
  /\ last' = Label("job", "started")
  /\ UNCHANGED <<remote, project, fields, items, serial, runs, pager, projects, svc>>

\* One pass of the loop over the projects
JobStep(outcome) ==
  /\ scheduler.job.pc = "running"
  /\ scheduler.job.k <= Len(Registered)
  /\ project' = AfterAttempt(Registered[scheduler.job.k], outcome, clock).project
  /\ fields' = AfterAttempt(Registered[scheduler.job.k], outcome, clock).fields
  /\ items' = AfterAttempt(Registered[scheduler.job.k], outcome, clock).items
  /\ serial' = AfterAttempt(Registered[scheduler.job.k], outcome, clock).serial
  /\ scheduler' = [scheduler EXCEPT
                     !.job = [Attempt(@, Registered[scheduler.job.k], outcome) EXCEPT
                                !.session = AfterAttempt(Registered[scheduler.job.k], outcome, clock).code]]
  /\ last' = Label("job", outcome)
  /\ UNCHANGED <<remote, clock, runs, pager, projects, svc>>

\* The end of the loop: the totals are logged and the session is closed
JobEnd ==
  /\ scheduler.job.pc = "running"
  /\ scheduler.job.k > Len(Registered)
  /\ scheduler' = [scheduler EXCEPT !.job.pc = "done", !.job.session = NoSession]
  /\ last' = [Label("job", "done") EXCEPT !.count = scheduler.job.synced_count]
  /\ UNCHANGED <<remote, project, fields, items, serial, clock, runs, pager, projects, svc>>

\* start_scheduler without the test of the global
start_scheduler_again(sch) ==
  [sch EXCEPT !.global = sch.made + 1, !.made = @ + 1,
              !.alive = @ \cup {[id |-> sch.made + 1, jobs |-> {"sync_all_projects"}]}]

\* start_scheduler: nothing when the global is set; otherwise a new
\* scheduler with the job sync_all_projects is started
start_scheduler(sch) ==
  IF sch.global # 0 THEN sch
  ELSE [sch EXCEPT !.global = sch.made + 1, !.made = @ + 1,
                   !.alive = @ \cup {[id |-> sch.made + 1, jobs |-> {"sync_all_projects"}]}]

\* stop_scheduler: nothing when the global is None; otherwise the scheduler
\* is shut down and the global is reset
stop_scheduler(sch) ==
  IF sch.global = 0 THEN sch
  ELSE [sch EXCEPT !.global = 0, !.alive = {i \in @ : i.id # sch.global}]

\* get_scheduler_status
get_scheduler_status(sch) ==
  IF sch.global = 0 THEN [running |-> FALSE, jobs |-> {}]
  ELSE [running |-> \E i \in sch.alive : i.id = sch.global,
        jobs |-> UNION {i.jobs : i \in {j \in sch.alive : j.id = sch.global}}]

StartScheduler ==
  /\ scheduler.global = 0 => scheduler.made < MaxStarts
  /\ scheduler' = start_scheduler(scheduler)
  /\ last' = Label("start", IF scheduler.global # 0 THEN "warning" ELSE "ok")
  /\ UNCHANGED <<remote, project, fields, items, serial, clock, runs, pager, projects, svc>>

StopScheduler ==
  /\ scheduler' = stop_scheduler(scheduler)
  /\ last' = Label("stop", IF scheduler.global = 0 THEN "warning" ELSE "ok")
  /\ UNCHANGED <<remote, project, fields, items, serial, clock, runs, pager, projects, svc>>

NextSched ==
  \/ StartScheduler
  \/ StopScheduler
  \/ JobStart
  \/ \E outcome \in Outcomes : JobStep(outcome)
  \/ JobEnd

SpecSched == InitStore /\ [][NextSched]_vars


(* ------------------------------------------------------- paging the items *)
MaxItems == 101     \* items on the board when fetch_project_items is called
MaxAdded == 1       \* items added to the board while the call pages through it
PageSize == 50      \* "first": 50

VariablesFirstPage(after) == [projectId |-> "PVT_0", first |-> PageSize, after |-> NoCursor]

\* The variables of one execution of the query
Variables(after) == [projectId |-> "PVT_0", first |-> PageSize, after |-> after]

\* items(first: $first, after: $after) of a board of "size" items: at most
\* "first" items behind the cursor, whether more follow, the cursor of the last one
Connection(size, variables) ==
  LET from == variables.after + 1
      to == IF variables.after + variables.first < size THEN variables.after + variables.first
            ELSE size
  IN [pageInfo |-> [hasNextPage |-> to < size, endCursor |-> IF to >= from THEN to ELSE NoCursor],
      nodes |-> [k \in 1..(to - from + 1) |-> [id |-> from + k - 1]]]

\* data of the response: node is null when the id names no project any more
Data(exists, size, variables) ==
  [node |-> exists, items |-> IF exists THEN Connection(size, variables) ELSE NoItems]

\* The payloads appended for the nodes of one page, in the order of the page
PagePayloads(nodes) == [k \in 1..Len(nodes) |-> [node_id |-> nodes[k].id]]

\* page_info.get("hasNextPage") of a response with a node
HasNextPage(data) == data.node /\ data.items.pageInfo.hasNextPage

\* fetch_project_items starts: items = [], after = None
NewPager(size) == [NoPager EXCEPT !.pc = "request", !.size = size]

\* await client.execute(query, {"projectId": ..., "first": 50, "after": after}):
\* the request goes out and the response comes back, or execute raises
ExecuteQuery(outcome) ==
  /\ pager.pc = "request"
  /\ Len(pager.sent) <= (MaxItems + MaxAdded) \div PageSize + 1
  /\ pager' = IF outcome = "ok"
               THEN [pager EXCEPT !.pc = "response",
                                  !.sent = Append(@, Variables(pager.after)),
                                  !.data = Data(pager.exists, pager.size, Variables(pager.after))]
               ELSE [pager EXCEPT !.pc = "raised", !.sent = Append(@, Variables(pager.after))]
  /\ UNCHANGED <<remote, project, fields, items, serial, clock, last, runs, scheduler, projects, svc>>

\* The rest of one pass of the loop: leave when there is no node, append the
\* payloads of the page, leave when no page follows, else keep the end cursor
ReceiveData ==
  /\ pager.pc = "response"
  /\ pager' = IF ~pager.data.node
               THEN [pager EXCEPT !.pc = "returned", !.got = Append(@, pager.data), !.data = NoData]
               ELSE [pager EXCEPT
                       !.pc = IF HasNextPage(pager.data) THEN "request" ELSE "returned",
                       !.items = @ \o PagePayloads(pager.data.items.nodes),
                       !.after = IF HasNextPage(pager.data) THEN pager.data.items.pageInfo.endCursor
                                 ELSE @,
                       !.got = Append(@, pager.data),
                       !.data = NoData]
  /\ UNCHANGED <<remote, project, fields, items, serial, clock, last, runs, scheduler, projects, svc>>

\* Someone adds an item to the board while the call is paging
ItemAdded ==
  /\ pager.pc \in {"request", "response"}
  /\ pager.added < MaxAdded
  /\ pager' = [pager EXCEPT !.size = @ + 1, !.added = @ + 1]
  /\ UNCHANGED <<remote, project, fields, items, serial, clock, last, runs, scheduler, projects, svc>>

\* The project is deleted on GitHub while the call is paging
ProjectRemoved ==
  /\ pager.pc \in {"request", "response"}
  /\ pager.exists
  /\ pager' = [pager EXCEPT !.exists = FALSE]
  /\ UNCHANGED <<remote, project, fields, items, serial, clock, last, runs, scheduler, projects, svc>>

InitPaging ==
  /\ remote \in [catalog : {<<>>},
                 items : {[n \in NodeIds |-> [present |-> FALSE, status |-> NULL, variant |-> 1,
                                               updated_at |-> 0]]}]
  /\ project = NewProject(remote.catalog)
  /\ fields = {}
  /\ serial = [field |-> 0, item |-> 0]
  /\ items = {}
  /\ clock = 1
  /\ last = Label("init", "ok")
  /\ runs = [r \in RunIds |-> IdleRun]
  /\ scheduler = NoScheduler
  /\ pager \in {NewPager(size) : size \in 0..MaxItems}
  /\ projects = NoProjects
  /\ svc = NoCall

NextPaging ==
  \/ \E outcome \in {"ok", "error"} : ExecuteQuery(outcome)
  \/ ReceiveData
  \/ ItemAdded
  \/ ProjectRemoved

\* The loop is not suspended for ever: a request that can go out goes out, a
\* response that arrived is processed
SpecPaging == InitPaging /\ [][NextPaging]_vars /\ WF_vars(ExecuteQuery("ok")) /\ WF_vars(ReceiveData)


(* ----------------------------------------------------------- epic options *)
SINGLE_SELECT_ALLOWED_COLORS ==
  {"GRAY", "BLUE", "GREEN", "YELLOW", "ORANGE", "RED", "PURPLE", "PINK", "BROWN", "BLACK"}

\* The normalisation that lets every color through
_normalize_single_select_color_unchecked(raw) ==
  IF raw = NULL \/ Upper(Strip(raw)) = "" THEN [code |-> "ok", color |-> NULL]
  ELSE [code |-> "ok", color |-> Upper(Strip(raw))]

\* _normalize_single_select_color: None and blank are no color, a color of the
\* palette is returned trimmed in upper case, any other raises 422
_normalize_single_select_color(raw) ==
  IF raw = NULL \/ Upper(Strip(raw)) = "" THEN [code |-> "ok", color |-> NULL]
  ELSE IF Upper(Strip(raw)) \notin SINGLE_SELECT_ALLOWED_COLORS THEN [code |-> "422", color |-> NULL]
  ELSE [code |-> "ok", color |-> Upper(Strip(raw))]

\* _require_epic_field: 422 without a resolved epic field or without the node
\* id of the project
_require_epic_field(proj, rows) ==
  IF resolve_epic_field(rows) = NoField THEN "422"
  ELSE IF proj.project_node_id = NULL \/ proj.project_node_id = "" THEN "422"
  ELSE "ok"

\* _extract_epic_options: id, name and color of the cached entries that have
\* an id and a name
_extract_epic_options(epic_field) ==
  IF epic_field = NoField \/ epic_field.entries = <<>> THEN <<>>
  ELSE LET named == SelectSeq(epic_field.entries,
                              LAMBDA o : o.id # NULL /\ o.id # "" /\ Or(o.name, o.title) # NULL
                                         /\ Or(o.name, o.title) # "")
       IN [k \in 1..Len(named) |->
             [id |-> named[k].id, name |-> Or(named[k].name, named[k].title), color |-> named[k].color]]

\* list_epic_options: the options of the resolved epic field
list_epic_options(rows) == _extract_epic_options(resolve_epic_field(rows))

\* The input of updateProjectV2SingleSelectOption (kind "upsert", optionId
\* and color only when given) or deleteProjectV2SingleSelectOption ("delete")
OptionCall(kind, field_id, option_id, name, color) ==
  [kind |-> kind, field |-> field_id, option |-> option_id, name |-> name, color |-> color]

\* The ids the remote side gives to new options, by the time of creation
NewOptionIds == <<"o1", "o2", "o3", "o4", "o5", "o6", "o7">>

\* The option list of a field after the mutation
OptionsAfter(entries, call, now) ==
  IF call.kind = "delete" THEN SelectSeq(entries, LAMBDA o : o.id # call.option)
  ELSE IF call.option = NULL
  THEN Append(entries, OptC(NewOptionIds[now], call.name, IF call.color = NULL THEN "GRAY" ELSE call.color))
  ELSE [k \in 1..Len(entries) |->
          IF entries[k].id # call.option THEN entries[k]
          ELSE [entries[k] EXCEPT !.name = call.name,
                                  !.color = IF call.color = NULL THEN @ ELSE call.color]]

\* The remote side applies an option mutation: it rejects (400) one that names
\* a field it does not have, a field without options or an option the field
\* does not have.  Result: [code, remote, option], option = the id in the answer.
ApplyOptionRemotely(rem, call, now) ==
  LET at == {i \in 1..Len(rem.catalog) : rem.catalog[i].id = call.field
                                         /\ rem.catalog[i].shape = "options"}
  IN IF at = {} THEN [code |-> "400", remote |-> rem, option |-> NULL]
     ELSE IF call.option # NULL
             /\ \A i \in at : \A o \in Range(rem.catalog[i].entries) : o.id # call.option
     THEN [code |-> "400", remote |-> rem, option |-> NULL]
     ELSE [code |-> "ok",
           remote |-> [rem EXCEPT !.catalog =
                         [i \in 1..Len(rem.catalog) |->
                            IF i \in at
                            THEN [rem.catalog[i] EXCEPT !.entries = OptionsAfter(@, call, now)]
                            ELSE rem.catalog[i]]],
           option |-> IF call.option = NULL THEN NewOptionIds[now] ELSE call.option]

\* The result of an epic operation: the HTTP outcome, the field rows and the
\* counter of the session, the mutations sent, the remote side, the option id
\* returned
EpicResult(code, rows, ser, calls, rem, option) ==
  [code |-> code, rows |-> rows, serial |-> ser, calls |-> calls, remote |-> rem, option |-> option]

\* The end of the "async with" block without _refresh_epic_field_cache
MutatedOnly(rows, ser, call, applied, net) ==
  IF applied.code # "ok" THEN EpicResult(applied.code, rows, ser, <<call>>, applied.remote, NULL)
  ELSE EpicResult("ok", rows, ser, <<call>>, applied.remote, applied.option)

\* _refresh_epic_field_cache after the mutation was answered: an exception of
\* the mutation or of fetch_project_metadata propagates, otherwise
\* sync_project_fields rewrites the rows from the fetched catalog
Refreshed(rows, ser, call, applied, net) ==
  IF applied.code # "ok" THEN EpicResult(applied.code, rows, ser, <<call>>, applied.remote, NULL)
  ELSE IF net = "metadata_failed" THEN EpicResult("503", rows, ser, <<call>>, applied.remote, NULL)
  ELSE EpicResult("ok",
                  sync_project_fields(rows, ser.field, applied.remote.catalog).rows,
                  [ser EXCEPT !.field = sync_project_fields(rows, ser.field, applied.remote.catalog).serial],
                  <<call>>, applied.remote, applied.option)

\* The "async with" block of the three operations: the mutation, then the refresh
MutateAndRefresh(rows, ser, call, now, rem, net) ==
  IF net = "down" THEN EpicResult("503", rows, ser, <<call>>, rem, NULL)
  ELSE Refreshed(rows, ser, call, ApplyOptionRemotely(rem, call, now), net)

\* create_epic_option
create_epic_option(proj, rows, ser, name, color, now, rem, net) ==
  IF _require_epic_field(proj, rows) # "ok"
  THEN EpicResult(_require_epic_field(proj, rows), rows, ser, <<>>, rem, NULL)
  ELSE IF _normalize_single_select_color(color).code # "ok"
  THEN EpicResult(_normalize_single_select_color(color).code, rows, ser, <<>>, rem, NULL)
  ELSE IF net = "no_token" THEN EpicResult("400", rows, ser, <<>>, rem, NULL)
  ELSE MutateAndRefresh(rows, ser,
                        OptionCall("upsert", resolve_epic_field(rows).field_id, NULL, name,
                                   _normalize_single_select_color(color).color),
                        now, rem, net)

\* current_name of update_epic_option: the given name, else the cached name of the option
CurrentName(rows, option_id, name) ==
  IF name # NULL /\ name # "" THEN name
  ELSE FirstWhere(_extract_epic_options(resolve_epic_field(rows)), LAMBDA o : o.id = option_id,
                  [id |-> NULL, name |-> NULL, color |-> NULL]).name

\* update_epic_option
update_epic_option(proj, rows, ser, option_id, name, color, now, rem, net) ==
  IF (name = NULL \/ name = "") /\ color = NULL THEN EpicResult("422", rows, ser, <<>>, rem, NULL)
  ELSE IF _require_epic_field(proj, rows) # "ok"
  THEN EpicResult(_require_epic_field(proj, rows), rows, ser, <<>>, rem, NULL)
  ELSE IF _normalize_single_select_color(color).code # "ok"
  THEN EpicResult(_normalize_single_select_color(color).code, rows, ser, <<>>, rem, NULL)
  ELSE IF net = "no_token" THEN EpicResult("400", rows, ser, <<>>, rem, NULL)
  ELSE IF CurrentName(rows, option_id, name) = NULL THEN EpicResult("404", rows, ser, <<>>, rem, NULL)
  ELSE MutateAndRefresh(rows, ser,
                        OptionCall("upsert", resolve_epic_field(rows).field_id, option_id,
                                   CurrentName(rows, option_id, name),
                                   _normalize_single_select_color(color).color),
                        now, rem, net)

\* delete_epic_option
delete_epic_option(proj, rows, ser, option_id, now, rem, net) ==
  IF _require_epic_field(proj, rows) # "ok"
  THEN EpicResult(_require_epic_field(proj, rows), rows, ser, <<>>, rem, NULL)
  ELSE IF net = "no_token" THEN EpicResult("400", rows, ser, <<>>, rem, NULL)
  ELSE MutateAndRefresh(rows, ser,
                        OptionCall("delete", resolve_epic_field(rows).field_id, option_id, NULL, NULL),
                        now, rem, net)

\* The inputs of the epic operations
EpicNames == {NULL, "Big"}
EpicColors == {NULL, " ", "blue", " red ", "magenta"}
EpicOptionIds == {"e1", "o2", "eX"}
EpicNets == {"ok", "down", "no_token", "metadata_failed"}

\* An epic operation ended with done: its session holds the rows of done
EpicDone(op, done, option_id, name, color) ==
  /\ remote' = done.remote
  /\ fields' = done.rows
  /\ serial' = done.serial
  /\ last' = [Label(op, done.code) EXCEPT
                !.calls = done.calls,
                !.epic = [option_id |-> option_id, name |-> name, color |-> color,
                          returned |-> done.option]]
  /\ clock' = clock + 1
  /\ UNCHANGED <<project, items, runs, scheduler, pager, projects, svc>>

CreateEpicOption(name, color, net) ==
  /\ clock < MaxClock
  /\ name # NULL
  /\ EpicDone("epic_create",
              create_epic_option(project, fields, serial, name, color, clock + 1, remote, net),
              NULL, name, color)

UpdateEpicOption(option_id, name, color, net) ==
  /\ clock < MaxClock
  /\ EpicDone("epic_update",
              update_epic_option(project, fields, serial, option_id, name, color, clock + 1, remote, net),
              option_id, name, color)

DeleteEpicOption(option_id, net) ==
  /\ clock < MaxClock
  /\ EpicDone("epic_delete",
              delete_epic_option(project, fields, serial, option_id, clock + 1, remote, net),
              option_id, NULL, NULL)

NextEpic ==
  \/ \E c \in Catalogs : RemoteCatalogChange(c)
  \/ \E name \in EpicNames, color \in EpicColors, net \in EpicNets : CreateEpicOption(name, color, net)
  \/ \E id \in EpicOptionIds, name \in EpicNames, color \in EpicColors, net \in EpicNets :
       UpdateEpicOption(id, name, color, net)
  \/ \E id \in EpicOptionIds, net \in EpicNets : DeleteEpicOption(id, net)

SpecEpic == InitStore /\ [][NextEpic]_vars


(* ------------------------------------------------------ the GraphQL client *)
MaxErrors == 2      \* entries of the "errors" list of a response

\* One entry of "errors"; message "" stands for an entry without a message
GqlError(type, path, message) == [type |-> type, path |-> path, message |-> message]

\* What the transport gives for one request: a failure (httpx.RequestError:
\* no connection, timeout) or a response with its status, its text and its
\* JSON body [data, errors]
TransportFailure == [kind |-> "failure", status |-> 0, text |-> "", data |-> "none", errors |-> <<>>]
HttpResponse(status, text, data, errors) ==
  [kind |-> "response", status |-> status, text |-> text, data |-> data, errors |-> errors]

\* What execute ends with: the data returned, or the HTTPException raised
Returned(data) == [kind |-> "return", code |-> "ok", detail |-> <<>>, data |-> data]
Raised(code, detail) == [kind |-> "raise", code |-> code, detail |-> detail, data |-> "none"]

\* An error is fatal unless it is NOT_FOUND for the path ["user"] or ["organization"]
IsFatal(error) == ~(error.type = "NOT_FOUND" /\ error.path \in {<<"user">>, <<"organization">>})

\* ", ".join(error.get("message", "Erro desconhecido") for error in fatal_errors),
\* kept as the sequence of the joined messages
JoinMessages(errors) ==
  [k \in 1..Len(errors) |-> IF errors[k].message = "" THEN "Erro desconhecido" ELSE errors[k].message]

\* execute from the answer of the transport on
ExecuteOutcome(answer) ==
  IF answer.kind = "failure" THEN Raised("503", <<"Não foi possível se comunicar com o GitHub">>)
  ELSE IF answer.status < 200 \/ answer.status > 299
  THEN Raised("400", <<"GitHub API retornou status", answer.status, answer.text>>)
  ELSE IF SelectSeq(answer.errors, IsFatal) # <<>>
  THEN Raised("400", JoinMessages(SelectSeq(answer.errors, IsFatal)))
  ELSE Returned(answer.data)

\* A call of execute: answers[k] is what the transport gives for the k-th request
NewExecute(answers) ==
  [fn |-> "execute", pc |-> "start", args |-> answers, sent |-> <<>>, result |-> <<>>]

\* The end of the call that posts again after a transport failure
AfterAnswerRetrying(c) ==
  IF c.args[Len(c.sent)].kind = "failure" /\ Len(c.sent) < Len(c.args) THEN [c EXCEPT !.pc = "start"]
  ELSE [c EXCEPT !.pc = IF ExecuteOutcome(c.args[Len(c.sent)]).kind = "return" THEN "returned" ELSE "raised",
                 !.result = <<ExecuteOutcome(c.args[Len(c.sent)])>>]

\* The end of the call: the answer of the one request decides
AfterAnswer(c) ==
  [c EXCEPT !.pc = IF ExecuteOutcome(c.args[Len(c.sent)]).kind = "return" THEN "returned" ELSE "raised",
            !.result = <<ExecuteOutcome(c.args[Len(c.sent)])>>]

\* await self._client.post(GITHUB_GRAPHQL_URL, json={"query": ..., "variables": ...})
ClientPost ==
  /\ svc.fn = "execute" /\ svc.pc = "start"
  /\ svc' = [svc EXCEPT !.pc = "posted", !.sent = Append(@, "POST")]
  /\ UNCHANGED <<remote, project, fields, items, serial, clock, last, runs, scheduler, pager, projects>>

\* The rest of execute: raise_for_status, the except clauses, the errors, the data
ClientFinish ==
  /\ svc.fn = "execute" /\ svc.pc = "posted"
  /\ svc' = AfterAnswer(svc)
  /\ UNCHANGED <<remote, project, fields, items, serial, clock, last, runs, scheduler, pager, projects>>

\* The errors a response can list
GqlErrors ==
  {GqlError("NOT_FOUND", <<"user">>, "no user"), GqlError("NOT_FOUND", <<"organization">>, "no org"),
   GqlError("NOT_FOUND", <<"node">>, "no node"), GqlError("FORBIDDEN", <<"user">>, "forbidden"),
   GqlError("NOT_FOUND", <<"user", "projectV2">>, "")}

ErrorLists == UNION {[1..n -> GqlErrors] : n \in 0..MaxErrors}

\* The answers to a first request, and to a second one if there were any
FirstAnswers ==
  {TransportFailure}
  \cup {HttpResponse(st, "detail", "none", <<>>) : st \in {199, 301, 404, 500}}
  \cup {HttpResponse(st, "", d, e) : st \in {200, 299}, d \in {"none", "data"}, e \in ErrorLists}
SecondAnswers == {TransportFailure, HttpResponse(200, "", "data", <<>>)}

\* The state in which nothing but a call of a service function happens
InitQuiet ==
  /\ remote \in [catalog : {<<>>},
                 items : {[n \in NodeIds |-> [present |-> FALSE, status |-> NULL, variant |-> 1,
                                               updated_at |-> 0]]}]
  /\ project = NewProject(remote.catalog)
  /\ fields = {}
  /\ serial = [field |-> 0, item |-> 0]
  /\ items = {}
  /\ clock = 1
  /\ last = Label("init", "ok")
  /\ runs = [r \in RunIds |-> IdleRun]
  /\ scheduler = NoScheduler
  /\ pager = NoPager
  /\ projects = NoProjects

InitClient == InitQuiet /\ svc \in {NewExecute(<<a, b>>) : a \in FirstAnswers, b \in SecondAnswers}

NextClient == ClientPost \/ ClientFinish

SpecClient == InitClient /\ [][NextClient]_vars


(* -------------------------------------------------- the field-value parser *)
MaxNodes == 3       \* field values of one item

START_DATE_ALIASES == {"start date", "start", "kickoff", "início", "inicio"}
END_DATE_ALIASES == {"end date", "finish", "fim", "conclusão", "conclusao"}
DUE_DATE_ALIASES == {"due date", "target date", "deadline", "entrega"}

\* One node of fieldValues: a date value, an iteration value or a
\* single-select value (option name and optionId) of the named field
DateNode(name, date) ==
  [typename |-> "ProjectV2ItemFieldDateValue", name |-> name, date |-> date, title |-> NULL,
   iterationId |-> NULL, startDate |-> NoDate, duration |-> DurNone,
   option_name |-> NULL, optionId |-> NULL]
IterationNode(name, title, id, start, dur) ==
  [typename |-> "ProjectV2ItemFieldIterationValue", name |-> name, date |-> NoDate, title |-> title,
   iterationId |-> id, startDate |-> start, duration |-> dur,
   option_name |-> NULL, optionId |-> NULL]
SingleSelectNode(name, option_name, option_id) ==
  [typename |-> "ProjectV2ItemFieldSingleSelectValue", name |-> name, date |-> NoDate, title |-> NULL,
   iterationId |-> NULL, startDate |-> NoDate, duration |-> DurNone,
   option_name |-> option_name, optionId |-> option_id]

\* ParsedFieldDetails()
NoDetails ==
  [iteration_title |-> NULL, iteration_id |-> NULL, iteration_start |-> NoDate,
   iteration_end |-> NoDate, start_date |-> NoDate, end_date |-> NoDate, due_date |-> NoDate,
   epic_option_id |-> NULL, epic_value |-> NULL]

\* values[name] = raw
Put(values, name, raw) == [x \in DOMAIN values \cup {name} |-> IF x = name THEN raw ELSE values[x]]

\* The branch of an iteration value
WithIteration(details, node) ==
  [details EXCEPT !.iteration_title = node.title,
                  !.iteration_id = node.iterationId,
                  !.iteration_start = parse_date_value(node.startDate),
                  !.iteration_end = compute_iteration_end(parse_date_value(node.startDate),
                                                          node.duration)]

\* The branch of a date value: the first parsed date of each role is kept
WithDate(details, lower_name, date_value) ==
  IF date_value = NoDate THEN details
  ELSE IF lower_name \in START_DATE_ALIASES /\ details.start_date = NoDate
  THEN [details EXCEPT !.start_date = date_value]
  ELSE IF lower_name \in END_DATE_ALIASES /\ details.end_date = NoDate
  THEN [details EXCEPT !.end_date = date_value]
  ELSE IF lower_name \in DUE_DATE_ALIASES /\ details.due_date = NoDate
  THEN [details EXCEPT !.due_date = date_value]
  ELSE details

\* The branch of a single-select value: a field whose lower-cased name is an
\* epic alias gives the epic name and option id (the last such node wins)
WithEpic(details, lower_name, node) ==
  IF lower_name \in EPIC_FIELD_ALIASES
  THEN [details EXCEPT !.epic_value = node.option_name, !.epic_option_id = node.optionId]
  ELSE details

\* The loop of parse_field_details over the nodes i..Len(nodes); acc = [values, details]
RECURSIVE ParseLoop(_, _, _)
ParseLoop(nodes, i, acc) ==
  IF i > Len(nodes) THEN acc
  ELSE IF nodes[i].name = NULL \/ nodes[i].name = "" THEN ParseLoop(nodes, i + 1, acc)
  ELSE IF nodes[i].typename = "ProjectV2ItemFieldIterationValue"
  THEN ParseLoop(nodes, i + 1,
                 [values |-> Put(acc.values, nodes[i].name, nodes[i].title),
                  details |-> WithIteration(acc.details, nodes[i])])
  ELSE IF nodes[i].typename = "ProjectV2ItemFieldSingleSelectValue"
  THEN ParseLoop(nodes, i + 1,
                 [values |-> Put(acc.values, nodes[i].name, nodes[i].option_name),
                  details |-> WithEpic(acc.details, Lower(nodes[i].name), nodes[i])])
  ELSE ParseLoop(nodes, i + 1,
                 [values |-> Put(acc.values, nodes[i].name, nodes[i].date),
                  details |-> WithDate(acc.details, Lower(nodes[i].name),
                                       parse_date_value(nodes[i].date))])

\* The fallbacks that let the due date win over the iteration
FallbacksDueFirst(details) ==
  [details EXCEPT
     !.start_date = IF @ # NoDate THEN @
                    ELSE IF details.due_date # NoDate THEN details.due_date - 1
                    ELSE details.iteration_start,
     !.end_date = IF @ # NoDate THEN @
                  ELSE IF details.due_date # NoDate THEN details.due_date
                  ELSE details.iteration_end]

\* The fallbacks that take the due date itself as the start
FallbacksSameDay(details) ==
  [details EXCEPT
     !.start_date = IF @ # NoDate THEN @
                    ELSE IF details.iteration_start # NoDate THEN details.iteration_start
                    ELSE details.due_date,
     !.end_date = IF @ # NoDate THEN @
                  ELSE IF details.iteration_end # NoDate THEN details.iteration_end
                  ELSE details.due_date]

\* The fallbacks after the loop: start from the iteration start, end from
\* the iteration end or else the due date, start from the day before the due date
Fallbacks(details) ==
  [details EXCEPT
     !.start_date = IF @ # NoDate THEN @
                    ELSE IF details.iteration_start # NoDate THEN details.iteration_start
                    ELSE IF details.due_date # NoDate THEN details.due_date - 1
                    ELSE NoDate,
     !.end_date = IF @ # NoDate THEN @
                  ELSE IF details.iteration_end # NoDate THEN details.iteration_end
                  ELSE details.due_date]

\* parse_field_details
parse_field_details(nodes) ==
  [values |-> ParseLoop(nodes, 1, [values |-> <<>>, details |-> NoDetails]).values,
   details |-> Fallbacks(ParseLoop(nodes, 1, [values |-> <<>>, details |-> NoDetails]).details)]

\* The field values an item can carry
FieldNodes ==
  {DateNode("Start date", 3), DateNode("Start date", BadDate), DateNode("End date", 9),
   DateNode("End date", NoDate), DateNode("Due date", 7), DateNode("Due date", 8),
   DateNode("Shipped", 6),
   IterationNode("Sprint", "Sprint 1", "it1", 2, DurInt(14)),
   IterationNode("Sprint", "Sprint 2", "it2", 4, DurText),
   IterationNode("Sprint", "Sprint 3", "it3", NoDate, DurDigits(7))}

\* The cached iteration options an id can be resolved from
IterationOptions ==
  {Iter("it1", "Sprint 1", 2, DurInt(14)), Iter("it2", "Sprint 2", 4, DurDigits(7)),
   Iter("it3", "Sprint 3", 4, DurText), Iter("it4", "Sprint 4", 4, DurNone),
   Iter("it5", "Sprint 5", 4, DurBlank), Iter("it6", "Sprint 6", NoDate, DurInt(14)),
   Iter("it7", "Sprint 7", BadDate, DurInt(14))}

\* A cached iteration field with this option
IterationFieldWith(option) ==
  [id |-> 1, field_id |-> "F_iter", field_name |-> "Iteration", field_type |-> "ITERATION",
   shape |-> "configuration", entries |-> <<option>>]

\* A call of parse_field_details or of resolve_iteration_option
NewParse(nodes) ==
  [fn |-> "parse_field_details", pc |-> "start", args |-> nodes, sent |-> <<>>, result |-> <<>>]
NewResolve(option, id) ==
  [fn |-> "resolve_iteration_option", pc |-> "start", args |-> <<IterationFieldWith(option), id>>,
   sent |-> <<>>, result |-> <<>>]

ParseFieldDetails ==
  /\ svc.fn = "parse_field_details" /\ svc.pc = "start"
  /\ svc' = [svc EXCEPT !.pc = "returned", !.result = <<parse_field_details(svc.args)>>]
  /\ UNCHANGED <<remote, project, fields, items, serial, clock, last, runs, scheduler, pager, projects>>

ResolveIterationOption ==
  /\ svc.fn = "resolve_iteration_option" /\ svc.pc = "start"
  /\ svc' = [svc EXCEPT !.pc = "returned",
                        !.result = <<resolve_iteration_option(svc.args[1], svc.args[2])>>]
  /\ UNCHANGED <<remote, project, fields, items, serial, clock, last, runs, scheduler, pager, projects>>

InitParser ==
  /\ InitQuiet
  /\ svc \in {NewParse(nodes) : nodes \in UNION {[1..n -> FieldNodes] : n \in 0..MaxNodes}}
            \cup {NewResolve(o, o.id) : o \in IterationOptions}
            \cup {NewResolve(o, "itX") : o \in IterationOptions}

NextParser == ParseFieldDetails \/ ResolveIterationOption

SpecParser == InitParser /\ [][NextParser]_vars


(* ------------------------------------------------- resolving the epic role *)
MaxFields == 3      \* cached fields of one project

\* The k-th cached field of a project, with this name and type
CachedField(k, name, type) ==
  [id |-> k, field_id |-> <<"F", k>>, field_name |-> name, field_type |-> type,
   shape |-> IF Lower(type) \in {"single_select", "projectv2singleselectfield"} THEN "options" ELSE "none",
   entries |-> <<>>]

\* Name and type of the fields a project can have cached
FieldKinds ==
  {<<"Epic", "TEXT">>, <<"Epic", "NUMBER">>, <<"Epic", "SINGLE_SELECT">>,
   <<"My Epics", "SINGLE_SELECT">>, <<"Parent issue", "ProjectV2SingleSelectField">>,
   <<"Status", "SINGLE_SELECT">>, <<"Epic Link", "ITERATION">>}

\* A call of _resolve_epic_field_from_collection with the fields in this order
NewResolveEpic(kinds) ==
  [fn |-> "resolve_epic_field", pc |-> "start",
   args |-> [k \in 1..Len(kinds) |-> CachedField(k, kinds[k][1], kinds[k][2])],
   sent |-> <<>>, result |-> <<>>]

ResolveEpicField ==
  /\ svc.fn = "resolve_epic_field" /\ svc.pc = "start"
  /\ svc' = [svc EXCEPT !.pc = "returned", !.result = <<resolve_epic_field(Range(svc.args))>>]
  /\ UNCHANGED <<remote, project, fields, items, serial, clock, last, runs, scheduler, pager, projects>>

InitResolver ==
  /\ InitQuiet
  /\ svc \in {NewResolveEpic(kinds) : kinds \in UNION {[1..n -> FieldKinds] : n \in 0..MaxFields}}

NextResolver == ResolveEpicField

SpecResolver == InitResolver /\ [][NextResolver]_vars


(* --------------------------------------------------- configuring projects *)
MaxCalls == 3       \* configuration and status-column requests in one behaviour

\* The tenant accounts; each has one owner user, named like the account
Accounts == {"a1", "a2"}

\* The boards of the remote side: the node id is fixed by owner and number
Boards ==
  {[owner |-> "o1", number |-> 1, node_id |-> "PVT_1", title |-> "Board 1"],
   [owner |-> "o1", number |-> 2, node_id |-> "PVT_2", title |-> "Board 2"]}

FStatusC == [id |-> "F_status", name |-> "Status", dataType |-> "SINGLE_SELECT", shape |-> "options",
             entries |-> <<Opt("d", "Done"), Opt("r", "Review")>>]
FStatusD == [id |-> "F_status", name |-> "Status", dataType |-> "SINGLE_SELECT", shape |-> "options",
             entries |-> <<Opt("b", "Backlog"), Opt("b2", "Backlog")>>]

\* The fields fetch_project_metadata can find on a board (<<>>: no field)
ConfigCatalogs == {<<>>, <<FStatusA>>, <<FStatusC, FIter>>, <<FStatusD>>}

\* ProjectMetadata of the board with these fields
ProjectMetadata(board, fm) ==
  [owner |-> board.owner, number |-> board.number, node_id |-> board.node_id,
   title |-> board.title, field_mappings |-> fm]

\* The unique constraints of github_project: project_node_id, and
\* (account_id, owner_login, project_number)
ViolatesUnique(rows) ==
  \E p, q \in rows :
    /\ p.id # q.id
    /\ \/ p.project_node_id = q.project_node_id
       \/ /\ p.account_id = q.account_id
          /\ p.owner_login = q.owner_login
          /\ p.project_number = q.project_number

\* upsert_github_project, the account has a project: the row takes the board
UpdatedProject(old, metadata) ==
  [old EXCEPT !.owner_login = metadata.owner,
              !.project_number = metadata.number,
              !.project_node_id = metadata.node_id,
              !.name = metadata.title,
              !.field_mappings = metadata.field_mappings,
              !.status_columns = IF metadata.field_mappings # <<>> /\ @ = <<>>
                                 THEN extract_status_columns(metadata.field_mappings) ELSE @]

\* upsert_github_project, the account has no project: a new row
CreatedProject(id, account, metadata) ==
  [id |-> id, account_id |-> account, owner_login |-> metadata.owner,
   project_number |-> metadata.number, project_node_id |-> metadata.node_id,
   name |-> metadata.title, field_mappings |-> metadata.field_mappings,
   status_columns |-> IF metadata.field_mappings # <<>>
                      THEN extract_status_columns(metadata.field_mappings) ELSE <<>>,
   fields |-> {}]

\* The project of the account, if any, else a new one
UpsertedProject(store, account, metadata) ==
  IF \E p \in store.rows : p.account_id = account
  THEN UpdatedProject(CHOOSE p \in store.rows : p.account_id = account, metadata)
  ELSE CreatedProject(store.serial.project + 1, account, metadata)

\* sync_project_fields on the field rows of the project
WithFields(store, proj) ==
  IF proj.field_mappings = <<>> THEN [rows |-> proj.fields, serial |-> store.serial.field]
  ELSE sync_project_fields(proj.fields, store.serial.field, proj.field_mappings)

\* The store with the project row written and its field rows synchronised
Flushed(store, proj, synced) ==
  [store EXCEPT !.rows = {p \in @ : p.id # proj.id} \cup {[proj EXCEPT !.fields = synced.rows]},
                !.serial = [project |-> IF proj.id > @.project THEN proj.id ELSE @.project,
                            field |-> synced.serial]]

\* upsert_github_project: the project is looked up by account alone; more than
\* one row fails scalar_one_or_none, a violated constraint fails the flush.
\* Result: [code, store, project (its id)].
upsert_github_project(store, account, metadata) ==
  LET proj == UpsertedProject(store, account, metadata)
      flushed == Flushed(store, proj, WithFields(store, proj))
  IN IF Cardinality({p \in store.rows : p.account_id = account}) > 1 \/ ViolatesUnique(flushed.rows)
     THEN [code |-> "500", store |-> store, project |-> 0]
     ELSE [code |-> "200", store |-> flushed, project |-> proj.id]

\* configure_github_project: token, metadata, upsert, the caller becomes admin
\* of the project unless already a member, commit.  Result: [code, store].
configure_github_project(store, account, board, fm, net) ==
  IF net = "no_token" THEN [code |-> "400", store |-> store]
  ELSE IF net = "not_found" THEN [code |-> "404", store |-> store]
  ELSE LET upserted == upsert_github_project(store, account, ProjectMetadata(board, fm))
       IN IF upserted.code # "200" THEN [code |-> upserted.code, store |-> store]
          ELSE [code |-> "200",
                store |-> [upserted.store EXCEPT !.members = @ \cup {<<account, upserted.project>>}]]

\* payload.get("columns") that is not a list
NotAList == <<"not a list">>

\* The loop of update_status_columns over columns[i..]
RECURSIVE CleanColumns(_, _, _)
CleanColumns(columns, i, cleaned) ==
  IF i > Len(columns) THEN cleaned
  ELSE IF columns[i] = NULL THEN CleanColumns(columns, i + 1, cleaned)
  ELSE IF Strip(columns[i]) = "" \/ Lower(Strip(columns[i])) = "done"
  THEN CleanColumns(columns, i + 1, cleaned)
  ELSE IF Strip(columns[i]) \in Range(cleaned) THEN CleanColumns(columns, i + 1, cleaned)
  ELSE CleanColumns(columns, i + 1, Append(cleaned, Strip(columns[i])))

\* _get_project_or_404: the project with this id if it belongs to the account,
\* without an id (0) the first project of the account; {} stands for 404
ProjectOr404(store, account, project_id) ==
  IF project_id # 0 THEN {p \in store.rows : p.id = project_id /\ p.account_id = account}
  ELSE LET mine == {p \in store.rows : p.account_id = account}
       IN IF mine = {} THEN {}
          ELSE {CHOOSE p \in mine : \A q \in mine : p.id <= q.id}

\* update_status_columns: the names stripped, without blanks, "done" in any
\* case and repetitions, then "Done".  Result: [code, store].
update_status_columns(store, account, project_id, columns) ==
  LET found == ProjectOr404(store, account, project_id)
  IN IF found = {} THEN [code |-> "404", store |-> store]
     ELSE IF columns = NotAList THEN [code |-> "422", store |-> store]
     ELSE [code |-> "200",
           store |-> [store EXCEPT !.rows =
                        {IF p \in found
                         THEN [p EXCEPT !.status_columns = Append(CleanColumns(columns, 1, <<>>), "Done")]
                         ELSE p : p \in @}]]

\* The column lists the requests carry
ColumnLists ==
  {NotAList, <<>>, <<" Backlog ", "Backlog", "DONE">>, <<"Review", NULL, " Done", "Backlog">>}

\* The request ended with this result
ConfigDone(fn, args, result) ==
  /\ clock < MaxCalls
  /\ clock' = clock + 1
  /\ projects' = result.store
  /\ svc' = [fn |-> fn, pc |-> IF result.code = "200" THEN "returned" ELSE "raised",
             args |-> args, sent |-> <<>>, result |-> <<result.code>>]
  /\ UNCHANGED <<remote, project, fields, items, serial, last, runs, scheduler, pager>>

ConfigureGithubProject(account, board, fm, net) ==
  ConfigDone("configure_github_project", <<account, board.owner, board.number>>,
             configure_github_project(projects, account, board, fm, net))

UpdateStatusColumns(account, project_id, columns) ==
  ConfigDone("update_status_columns", <<account, project_id, columns>>,
             update_status_columns(projects, account, project_id, columns))

InitConfig == InitQuiet /\ svc = NoCall

NextConfig ==
  \/ \E account \in Accounts, board \in Boards, fm \in ConfigCatalogs, net \in {"ok", "no_token", "not_found"} :
       ConfigureGithubProject(account, board, fm, net)
  \/ \E account \in Accounts, project_id \in 0..2, columns \in ColumnLists :
       UpdateStatusColumns(account, project_id, columns)

SpecConfig == InitConfig /\ [][NextConfig]_vars


(* ------------------------------------------- an edit during a full resync *)
\* The PATCH requests that carry a status alone
StatusChangesets == {cs \in Changesets : cs.keys = {"status"}}

\* update_project_item while the job's resync is under way or over: the
\* request runs in a session of its own and commits as a whole; its UPDATE
\* needs a row that no open transaction has updated
EditDuringSync(pk, cs, editor_id, net) ==
  /\ runs["job"].pc # "idle"
  /\ \A r \in RunIds : \A u \in runs[r].upd : u.old.id # pk
  /\ UpdateProjectItem(pk, cs, editor_id, net)

InitRace == InitConc /\ items # {}

NextRace ==
  \/ BeginSync("job")
  \/ FetchItems("job")
  \/ UpsertNext("job")
  \/ FlushItems("job")
  \/ CommitSync("job")
  \/ \E pk \in {r.id : r \in items}, cs \in StatusChangesets, ed \in Editors, net \in {"ok", "down"} :
       EditDuringSync(pk, cs, ed, net)

SpecRace == InitRace /\ [][NextRace]_vars


(* ------------------------------- the job after a change of the catalog *)
\* The scheduler is started, the board's fields change, the job runs
NextJob ==
  \/ StartScheduler
  \/ \E c \in Catalogs : RemoteCatalogChange(c)
  \/ JobStart
  \/ \E outcome \in Outcomes : JobStep(outcome)
  \/ JobEnd

SpecJob == InitStore /\ [][NextJob]_vars


(* ------------------------------------------------- edits of single dates *)
\* The PATCH requests that carry dates: both, or one of the two
DateChangesets ==
  {[NoChangeset EXCEPT !.keys = {"start_date", "end_date"}, !.start_date = 3, !.end_date = e] : e \in {2, 4}}
  \cup {[NoChangeset EXCEPT !.keys = {"end_date"}, !.end_date = e] : e \in {NoDate, 2, 4}}
  \cup {[NoChangeset EXCEPT !.keys = {"start_date"}, !.start_date = b] : b \in {NoDate, 3, 5}}

NextDates ==
  \/ \E n \in NodeIds : RemoteItemChange(n)
  \/ SyncGithubProject("ok")
  \/ \E pk \in {r.id : r \in items}, cs \in DateChangesets, ed \in Editors : UpdateProjectItem(pk, cs, ed, "ok")

SpecDates == InitStore /\ [][NextDates]_vars


(* --------------------------------------------- edits from a client view *)
\* GET /projects/current/items as a client keeps it for one item: the
\* ProjectItemResponse of the row, of which the edit uses id and remote_updated_at
ViewOf(r) == [id |-> r.id, remote_updated_at |-> r.remote_updated_at, status |-> r.status]

\* The client reads the items and keeps the view of one of them
ListProjectItems(pk) ==
  /\ svc' = [fn |-> "list_project_items", pc |-> "returned", args |-> <<pk>>, sent |-> <<>>,
             result |-> <<ViewOf(CHOOSE r \in items : r.id = pk)>>]
  /\ UNCHANGED <<remote, project, fields, items, serial, clock, last, runs, scheduler, pager, projects>>

\* The PATCH body a client builds from its view: the new status with the
\* remote_updated_at of the view, or the status alone
BodyFromView(view, carries) ==
  IF carries
  THEN [NoChangeset EXCEPT !.keys = {"status", "remote_updated_at"}, !.status = "Done",
                           !.remote_updated_at = view.remote_updated_at]
  ELSE [NoChangeset EXCEPT !.keys = {"status"}, !.status = "Done"]

\* The client edits the item it has a view of
EditFromView(carries, editor_id) ==
  /\ svc.fn = "list_project_items"
  /\ UpdateProjectItem(svc.result[1].id, BodyFromView(svc.result[1], carries), editor_id, "ok")

NextView ==
  \/ \E n \in NodeIds : RemoteItemChange(n)
  \/ SyncGithubProject("ok")
  \/ \E pk \in {r.id : r \in items} : ListProjectItems(pk)
  \/ \E carries \in BOOLEAN, ed \in Editors : EditFromView(carries, ed)

SpecView == InitRace /\ [][NextView]_vars


(* ------------------------------------ the epic of an item and of a project *)
\* The ids of the options the item has selected, by the position of the field
SelectedOptionIds == <<"v1", "v2", "v3", "v4">>

\* The fieldValues of an item that has a value in every single-select field
\* of the project, in the order of the fields
RECURSIVE SelectedValues(_, _)
SelectedValues(cached, k) ==
  IF k > Len(cached) THEN <<>>
  ELSE IF cached[k].shape = "options"
  THEN <<SingleSelectNode(cached[k].field_name, "Epic One", SelectedOptionIds[k])>>
       \o SelectedValues(cached, k + 1)
  ELSE SelectedValues(cached, k + 1)

\* The fields of a project (their names differ) and the values of one item
NewEpicOfItem(kinds) ==
  [fn |-> "epic_of_item", pc |-> "start",
   args |-> [k \in 1..Len(kinds) |-> CachedField(k, kinds[k][1], kinds[k][2])],
   sent |-> <<>>, result |-> <<>>]

\* The sync parses the item's values, the epic endpoints resolve the epic field
EpicOfItem ==
  /\ svc.fn = "epic_of_item" /\ svc.pc = "start"
  /\ svc' = [svc EXCEPT !.pc = "returned",
                        !.sent = SelectedValues(svc.args, 1),
                        !.result = <<resolve_epic_field(Range(svc.args)),
                                     parse_field_details(SelectedValues(svc.args, 1)).details>>]
  /\ UNCHANGED <<remote, project, fields, items, serial, clock, last, runs, scheduler, pager, projects>>

InitEpicRole ==
  /\ InitQuiet
  /\ svc \in {NewEpicOfItem(kinds) :
                kinds \in {ks \in UNION {[1..n -> FieldKinds] : n \in 0..MaxFields} :
                             \A i, j \in 1..Len(ks) : ks[i][1] = ks[j][1] => i = j}}

NextEpicRole == EpicOfItem

SpecEpicRole == InitEpicRole /\ [][NextEpicRole]_vars


(* ------------------------------------------------------- change requests *)
\* The requests that review one change request at the same time
Reviews == {"r1", "r2"}

\* The node ids GitHub gives to the issues it creates, in order
IssueNodeIds == <<"I_1", "I_2", "I_3", "I_4", "I_5">>

\* A stored change request that nobody has reviewed
PendingRequest ==
  [status |-> "pending", reviewed_by |-> NULL, github_issue_node_id |-> NULL]

\* A review request that has not arrived
NoReview ==
  [pc |-> "idle", op |-> "none", create_issue |-> FALSE, add_to_project |-> FALSE,
   request |-> PendingRequest, code |-> 0]

\* The row a review has in its session, once approve_change_request has set
\* the status and the reviewer
Approved(request, reviewer) ==
  [request EXCEPT !.status = "approved", !.reviewed_by = reviewer]

\* The row once the issue is created and, if asked, added to the project
Converted(request, issue_node_id) ==
  [request EXCEPT !.status = "converted", !.github_issue_node_id = issue_node_id]

\* The row reject_change_request commits
Rejected(request, reviewer) ==
  [request EXCEPT !.status = "rejected", !.reviewed_by = reviewer]

\* The response of a review that ends here: its session is closed, what it
\* did not commit is lost
Responded(r, code) == [svc.calls[r] EXCEPT !.pc = "done", !.code = code]

\* approve_request up to the first remote call: the row is loaded, a row that
\* is not pending is refused with 400, the status and the reviewer are set in
\* the session, and a request without create_issue commits at once
approve_request(r, create_issue, add_to_project) ==
  /\ svc.fn = "change_requests"
  /\ svc.calls[r].pc \in {"idle", "done"}
  /\ svc.started < MaxCalls
  /\ IF svc.request.status # "pending"
     THEN svc' = [svc EXCEPT !.started = @ + 1,
                             !.calls[r] = [NoReview EXCEPT !.pc = "done", !.op = "approve",
                                                           !.request = svc.request,
                                                           !.code = 400]]
     ELSE IF create_issue
     THEN svc' = [svc EXCEPT !.started = @ + 1,
                             !.calls[r] = [pc |-> "create_issue", op |-> "approve",
                                           create_issue |-> TRUE,
                                           add_to_project |-> add_to_project,
                                           request |-> Approved(svc.request, r),
                                           code |-> 0]]
     ELSE svc' = [svc EXCEPT !.started = @ + 1,
                             !.request = Approved(svc.request, r),
                             !.calls[r] = [pc |-> "done", op |-> "approve",
                                           create_issue |-> FALSE,
                                           add_to_project |-> add_to_project,
                                           request |-> Approved(svc.request, r),
                                           code |-> 200]]
  /\ UNCHANGED <<remote, project, fields, items, serial, clock, last, runs, scheduler, pager, projects>>

\* create_issue_from_request: the createIssue mutation creates the issue on
\* GitHub, or the call fails and the review ends with nothing committed
create_issue_from_request(r, net) ==
  /\ svc.fn = "change_requests"
  /\ svc.calls[r].pc = "create_issue"
  /\ IF net = "ok"
     THEN /\ Len(svc.issues) < Len(IssueNodeIds)
          /\ svc' = [svc EXCEPT
               !.issues = Append(@, IssueNodeIds[Len(svc.issues) + 1]),
               !.calls[r].request.github_issue_node_id = IssueNodeIds[Len(svc.issues) + 1],
               !.calls[r].pc = IF svc.calls[r].add_to_project
                               THEN "add_to_project" ELSE "commit"]
     ELSE svc' = [svc EXCEPT !.calls[r] = Responded(r, 503)]
  /\ UNCHANGED <<remote, project, fields, items, serial, clock, last, runs, scheduler, pager, projects>>

\* add_issue_to_project: the addProjectV2ItemById mutation, or its failure,
\* which ends the review with nothing committed
add_issue_to_project(r, net) ==
  /\ svc.fn = "change_requests"
  /\ svc.calls[r].pc = "add_to_project"
  /\ IF net = "ok"
     THEN svc' = [svc EXCEPT !.calls[r].pc = "commit"]
     ELSE svc' = [svc EXCEPT !.calls[r] = Responded(r, 503)]
  /\ UNCHANGED <<remote, project, fields, items, serial, clock, last, runs, scheduler, pager, projects>>

\* The end of approve_change_request with an issue: the status becomes
\* converted and the row of the session is committed over the stored one
approve_change_request(r) ==
  /\ svc.fn = "change_requests"
  /\ svc.calls[r].pc = "commit"
  /\ svc' = [svc EXCEPT
       !.request = Converted(svc.calls[r].request,
                             svc.calls[r].request.github_issue_node_id),
       !.calls[r].request = Converted(svc.calls[r].request,
                                      svc.calls[r].request.github_issue_node_id),
       !.calls[r].pc = "done",
       !.calls[r].code = 200]
  /\ UNCHANGED <<remote, project, fields, items, serial, clock, last, runs, scheduler, pager, projects>>

\* reject_request: the row is loaded, a row that is not pending is refused
\* with 400, a pending one is committed as rejected
reject_request(r) ==
  /\ svc.fn = "change_requests"
  /\ svc.calls[r].pc \in {"idle", "done"}
  /\ svc.started < MaxCalls
  /\ IF svc.request.status # "pending"
     THEN svc' = [svc EXCEPT !.started = @ + 1,
                             !.calls[r] = [NoReview EXCEPT !.pc = "done", !.op = "reject",
                                                           !.request = svc.request,
                                                           !.code = 400]]
     ELSE svc' = [svc EXCEPT !.started = @ + 1,
                             !.request = Rejected(svc.request, r),
                             !.calls[r] = [NoReview EXCEPT !.pc = "done", !.op = "reject",
                                                           !.request = Rejected(svc.request, r),
                                                           !.code = 200]]
  /\ UNCHANGED <<remote, project, fields, items, serial, clock, last, runs, scheduler, pager, projects>>

InitReview ==
  /\ InitQuiet
  /\ svc = [fn |-> "change_requests", pc |-> "open", started |-> 0,
            request |-> PendingRequest, issues |-> <<>>,
            calls |-> [r \in Reviews |-> NoReview]]

NextReview ==
  \/ \E r \in Reviews, create_issue \in BOOLEAN, add_to_project \in BOOLEAN :
       approve_request(r, create_issue, add_to_project)
  \/ \E r \in Reviews, net \in {"ok", "down"} : create_issue_from_request(r, net)
  \/ \E r \in Reviews, net \in {"ok", "down"} : add_issue_to_project(r, net)
  \/ \E r \in Reviews : approve_change_request(r)
  \/ \E r \in Reviews : reject_request(r)

SpecReview == InitReview /\ [][NextReview]_vars


(* ================================================================ claims *)
SyncDone == last.op = "sync" /\ last.outcome = "ok"

\* A row with its last-synced timestamp masked
Unstamped(r) == [r EXCEPT !.last_synced_at = NoDate]

\* C2: a full sync that directly follows a successful full sync (the remote
\* data being the same) leaves the item rows, the field rows and the project
\* as they were, except for the last-synced timestamps.
C2_ResyncIdempotent ==
  [][(last'.op = "sync" /\ last'.outcome = "ok" /\ last'.repeat) =>
       /\ {Unstamped(r) : r \in items'} = {Unstamped(r) : r \in items}
       /\ Cardinality(items') = Cardinality(items)
       /\ fields' = fields
       /\ [project' EXCEPT !.last_synced_at = NoDate] = [project EXCEPT !.last_synced_at = NoDate]
       /\ \A r \in items' : r.item_node_id \in {p.node_id : p \in Range(last'.snapshot)}
                             => r.last_synced_at = clock']_vars

\* Two full syncs in a row over a board with items and fields
C2_Witness == SyncDone /\ last.repeat /\ Cardinality(items) = 2 /\ fields # {}

\* C3: the store never holds two rows with the same item node id; a full sync
\* keeps the rows it finds (same primary key), gives the new node ids new
\* rows, returns the number of fetched items, and every fetched item is
\* stored with the values of the snapshot.
C3_UpsertByNodeId ==
  [][/\ \A r, q \in items' : r.item_node_id = q.item_node_id => r = q
     /\ (last'.op = "sync" /\ last'.outcome = "ok") =>
          /\ last'.count = Len(last'.snapshot)
          /\ \A p \in Range(last'.snapshot) :
               \E r \in items' : /\ r.item_node_id = p.node_id
                                 /\ \A a \in SyncedAttrs : r[a] = p[a]
                                 /\ r.last_synced_at = clock'
          /\ \A r \in items : \E q \in items' : q.id = r.id /\ q.item_node_id = r.item_node_id
          /\ \A q \in items' : (q.item_node_id \notin {r.item_node_id : r \in items})
                                 => q.id \notin {r.id : r \in items}]_vars

\* A sync has rewritten a row that existed before (it carries a local edit)
C3_Witness ==
  /\ SyncDone /\ last.count >= 1
  /\ \E r \in items : /\ r.last_local_edit_at # NoDate
                      /\ r.last_synced_at = clock
                      /\ r.last_synced_at > r.last_local_edit_at

\* C4: after a field catalog refresh the field rows are exactly the fetched
\* fields, one row per field id: rows of fetched ids are kept (same primary
\* key) with the fetched name, type and options, new ids get new rows, and
\* rows of ids that were not fetched are gone.
C4_FieldRowsMirrorCatalog ==
  [][(last'.op = "sync" /\ last'.outcome = "ok") =>
       LET fetched == Range(last'.catalog)
       IN /\ {r.field_id : r \in fields'} = {f.id : f \in fetched}
          /\ Cardinality(fields') = Cardinality({f.id : f \in fetched})
          /\ \A r \in fields' : \E f \in fetched :
               /\ f.id = r.field_id /\ f.name = r.field_name
               /\ f.dataType = r.field_type /\ f.entries = r.entries
          /\ \A r \in fields : r.field_id \in {f.id : f \in fetched}
                                 => \E q \in fields' : q.id = r.id /\ q.field_id = r.field_id
          /\ \A q \in fields' : q.field_id \notin {r.field_id : r \in fields}
                                 => q.id \notin {r.id : r \in fields}]_vars

\* A refresh after which a field that had a row is gone, while others stay
C4_Witness ==
  /\ SyncDone
  /\ fields # {}
  /\ serial.field > Cardinality(fields)
  /\ "F_status" \notin {r.field_id : r \in fields}


(* ------------------------------------------------- claims about item edits *)
\* The step is an edit request for a stored item (the item before and after)
EditStep == last'.op = "edit" /\ \E r \in items : r.id = last'.pk
EditedBefore == CHOOSE r \in items : r.id = last'.pk
EditedAfter == CHOOSE r \in items' : r.id = last'.pk

\* The client's view of the item is older than the stored one
StaleView(item, cs) ==
  /\ "remote_updated_at" \in cs.keys /\ cs.remote_updated_at # NoDate
  /\ item.remote_updated_at # NoDate /\ cs.remote_updated_at < item.remote_updated_at

\* The edit request reaches apply_local_project_item_updates with a status key
StatusEditStep ==
  /\ EditStep
  /\ ~StaleView(EditedBefore, last'.cs)
  /\ "status" \in last'.cs.keys

\* The trimmed new status (NULL when blank) and whether it differs from the stored one
NewStatus(cs) == IF cs.status = NULL \/ Strip(cs.status) = "" THEN NULL ELSE Strip(cs.status)
Differs(item, cs) == NewStatus(cs) # (IF item.status = NULL THEN NULL ELSE Strip(item.status))

\* The cached fields named Status, and their options with this name (case-insensitive)
CachedStatusFields == {f \in fields : Lower(f.field_name) = "status"}
NamedOptions(f, name) == {o \in Range(f.entries) : o.name # NULL /\ Lower(Strip(o.name)) = Lower(name)}

\* C1: when the remote status mutation raises, the request ends with that
\* error and no item changes; an edit that changes the status is stored only
\* after exactly one remote mutation returned successfully.
C1_RemoteBeforeLocal ==
  [][EditStep =>
       /\ (last'.rpc \notin {"none", "ok"}) => (last'.outcome = last'.rpc /\ items' = items)
       /\ (StatusEditStep /\ Differs(EditedBefore, last'.cs) /\ items' # items)
            => (last'.rpc = "ok" /\ Len(last'.calls) = 1 /\ last'.outcome = "ok")]_vars

\* The remote call of an edit with a status and an iteration failed
C1_Witness ==
  /\ last.op = "edit" /\ last.rpc \in {"503", "400"}
  /\ last.cs.keys = {"status", "iteration_id"}
  /\ \E r \in items : r.id = last.pk /\ r.status # "Backlog" /\ r.iteration_id # "it1"
                      /\ r.last_local_edit_at = NoDate

\* C5: a status edit whose trimmed non-empty value is not in the project's
\* status-column list ends with 422, issues no remote call and changes
\* neither the items nor the remote board.
C5_StatusOutsideColumnsRejected ==
  [][(/\ StatusEditStep
      /\ NewStatus(last'.cs) # NULL
      /\ project.status_columns # <<>>
      /\ NewStatus(last'.cs) \notin Range(project.status_columns))
       => (last'.outcome = "422" /\ last'.calls = <<>> /\ items' = items /\ remote' = remote)]_vars

\* "done" is rejected although the cached Status field has an option that
\* matches it when case is ignored
C5_Witness ==
  /\ last.op = "edit" /\ last.outcome = "422" /\ last.cs.keys = {"status"}
  /\ last.cs.status = "done"
  /\ project.status_columns # <<>> /\ "done" \notin Range(project.status_columns)
  /\ \E f \in CachedStatusFields : NamedOptions(f, "done") # {}
  /\ \E r \in items : r.id = last.pk /\ r.status # "done"

\* C6: an accepted edit to a status that differs from the stored one issues
\* exactly one mutation: for a non-empty value the update of the cached Status
\* field to the option named like the value (case ignored), for a blank or
\* null value the clearing of the Status field; the item then holds the new
\* status, the remote item the option's name.
C6_OneStatusMutation ==
  [][(StatusEditStep /\ Differs(EditedBefore, last'.cs) /\ last'.outcome = "ok") =>
       /\ EditedAfter.status = NewStatus(last'.cs)
       /\ \E f \in CachedStatusFields :
            IF NewStatus(last'.cs) # NULL
            THEN \E o \in NamedOptions(f, NewStatus(last'.cs)) :
                   /\ last'.calls = <<Mutation("update_single_select", EditedBefore.item_node_id,
                                               f.field_id, o.id)>>
                   /\ Lower(remote'.items[EditedBefore.item_node_id].status) = Lower(NewStatus(last'.cs))
            ELSE /\ last'.calls = <<Mutation("clear", EditedBefore.item_node_id, f.field_id, NULL)>>
                 /\ remote'.items[EditedBefore.item_node_id].status = NULL]_vars

\* " Done" was stored as "Done" after one update to the option named "DONE"
C6_Witness ==
  /\ last.op = "edit" /\ last.outcome = "ok" /\ last.cs.status = " Done"
  /\ Len(last.calls) = 1 /\ last.calls[1].kind = "update_single_select" /\ last.calls[1].value = "d2"
  /\ \E r \in items : r.id = last.pk /\ r.status = "Done" /\ remote.items[r.item_node_id].status = "DONE"

\* The status edit finds no cached Status field, or no option for its non-empty value
Unresolvable(cs) ==
  \/ CachedStatusFields = {}
  \/ NewStatus(cs) # NULL /\ \A f \in CachedStatusFields : NamedOptions(f, NewStatus(cs)) = {}

C8_IterationMirrored ==
  [][(EditStep /\ last'.outcome = "ok" /\ "iteration_id" \in last'.cs.keys) =>
       IF last'.cs.iteration_id # NULL
       THEN /\ EditedAfter.iteration_id = last'.cs.iteration_id
            /\ \E k \in 1..Len(last'.calls) :
                 /\ last'.calls[k].kind = "set_iteration"
                 /\ last'.calls[k].item = EditedBefore.item_node_id
                 /\ last'.calls[k].value = last'.cs.iteration_id
       ELSE /\ EditedAfter.iteration_id = NULL /\ EditedAfter.iteration = NULL
            /\ \E k \in 1..Len(last'.calls) :
                 /\ last'.calls[k].kind = "clear"
                 /\ last'.calls[k].item = EditedBefore.item_node_id
                 /\ last'.calls[k].field \in {f.field_id : f \in {resolve_iteration_field(fields)}}]_vars

\* C9: an edit whose supplied remote_updated_at is older than the stored one
\* ends with 409, issues no remote mutation and changes neither the items
\* nor the remote board.
C9_StaleViewConflict ==
  [][(EditStep /\ StaleView(EditedBefore, last'.cs))
       => (last'.outcome = "409" /\ last'.calls = <<>> /\ items' = items /\ remote' = remote)]_vars

\* A stale edit to a status that would otherwise have been mirrored was refused
C9_Witness ==
  /\ last.op = "edit" /\ last.outcome = "409"
  /\ \E r \in items : /\ r.id = last.pk /\ StaleView(r, last.cs) /\ Differs(r, last.cs)
                      /\ NewStatus(last.cs) \in Range(project.status_columns)
                      /\ ~Unresolvable(last.cs)


(* ----------------------------------------- claims about concurrent resyncs *)
\* Both runs have ended
BothEnded == \A r \in RunIds : runs[r].pc \in {"done", "failed"}

\* The runs that committed a snapshot with this node id
Writers(n) == {r \in RunIds : runs[r].pc = "done" /\ \E p \in Range(runs[r].payloads) : p.node_id = n}

\* C10: when two full resyncs of the project interleave, both complete, and
\* every item of their snapshots has exactly one row whose synced attributes
\* are those of the snapshot of the run that committed it last.
C10_ConcurrentResyncsConverge ==
  BothEnded =>
    /\ \A r \in RunIds : runs[r].pc = "done"
    /\ \A n \in NodeIds : Writers(n) # {} =>
         /\ Cardinality({c \in items : c.item_node_id = n}) = 1
         /\ \A c \in items : c.item_node_id = n =>
              \A r \in Writers(n) : (\A o \in Writers(n) : runs[o].order <= runs[r].order) =>
                \A p \in Range(runs[r].payloads) : p.node_id = n =>
                  \A a \in SyncedAttrs : c[a] = p[a]


(* ------------------------------------------- claims about crash and retry *)
\* The step re-applies the edit that the crash interrupted
RetryStep ==
  /\ last.op = "edit" /\ last.outcome = "crash"
  /\ EditStep /\ last'.outcome # "crash"
  /\ last'.pk = last.pk /\ last'.cs = last.cs

\* A row with the time of its local edit masked
Undated(r) == [r EXCEPT !.last_local_edit_at = NoDate]

\* C11: re-applying an edit whose remote status mutation succeeded before a
\* crash lost the local commit is refused only when the token is missing or
\* the remote call fails; otherwise it issues the same mutation again, leaves
\* the remote value as the first attempt set it and stores the item that the
\* uninterrupted edit would have stored.
C11_RetryAfterCrashIdempotent ==
  [][RetryStep =>
       /\ remote'.items[EditedBefore.item_node_id].status = remote.items[EditedBefore.item_node_id].status
       /\ last'.outcome # "ok" =>
            (items' = items /\ (last'.rpc = "503" \/ (last'.rpc = "none" /\ last'.outcome = "400")))
       /\ last'.rpc = "ok" => last'.outcome = "ok"
       /\ last'.outcome = "ok" =>
            /\ last'.calls = last.calls /\ last'.rpc = "ok"
            /\ Undated(EditedAfter) = Undated(last.item)]_vars

\* The retry of a crashed change of status to "Done" was stored
C11_Witness ==
  /\ last.op = "edit" /\ last.repeat /\ last.outcome = "ok" /\ last.cs.status = "Done"
  /\ Len(last.calls) = 1 /\ last.calls[1].kind = "update_single_select"
  /\ \E r \in items : /\ r.id = last.pk /\ r.status = "Done" /\ r.last_local_edit_at = clock
                      /\ remote.items[r.item_node_id].status \in {"Done", "DONE"}

(* ------------------------------------------------- claims about webhooks *)
\* The step is a webhook request
HookStep == last'.op = "webhook"

\* The signature header is missing, does not start with "sha256=", is not a
\* hex string, or is not the digest of the body under the configured secret
BadSignature(req) ==
  \/ req.signature.scheme # "sha256="
  \/ ~req.signature.ascii
  \/ req.signature.hash # Hexdigest(req.secret, req.body)

\* The step leaves the store as it was
StoreKept == project' = project /\ fields' = fields /\ items' = items /\ serial' = serial

\* C12: a webhook request (with its event header, on a server with a secret)
\* whose signature is missing, malformed or not the HMAC-SHA256 of the raw
\* body is answered 401, reaches no handler, triggers no resync and changes
\* no row.
C12_BadSignatureUnauthorized ==
  [][(HookStep /\ last'.request.event # NULL /\ last'.request.secret # ""
      /\ BadSignature(last'.request))
       => (last'.outcome = "401" /\ last'.response.status = NULL /\ ~last'.response.synced
           /\ StoreKept)]_vars

\* The event of the request resolves to the project of the store
ResolvesToProject(req) ==
  /\ req.event \in WEBHOOK_HANDLERS
  /\ IF req.event = "project_v2_item"
     THEN req.body.item_node_id # NULL /\ req.body.project_node_id = project.project_node_id
     ELSE req.body.content_node_id # NULL
          /\ \E r \in items : ContentNodeId(r.item_node_id) = req.body.content_node_id

\* C13: every handled webhook event that resolves to a known project,
\* whatever its action, runs a full resync of the project (which ends
\* committed or with a caught failure) and deletes no single item row.
C13_HandledEventResyncs ==
  [][(HookStep /\ last'.response.status = "processed" /\ ResolvesToProject(last'.request))
       => /\ last'.response.deleted = {}
          /\ \A r \in items : \E q \in items' : q.id = r.id
          /\ (last'.response.synced \/ last'.response.failure # NULL)]_vars

\* C14: when the resync inside a handler fails, the route answers 200 with
\* the status "error" in the body.
C14_HandlerFailureReported ==
  [][(HookStep /\ last'.response.failure # NULL)
       => (last'.outcome = "200" /\ last'.response.status = "error" /\ StoreKept)]_vars

\* C15: the webhook route answers 200, or 401/400 for a request that fails
\* the validation of its headers, signature or body; it answers 200 with the
\* status "ignored" to a valid request whose event has no handler.
C15_OnlyValidationFailuresRejected ==
  [][HookStep =>
       /\ last'.outcome \in {"200", "400", "401"}
       /\ last'.outcome \in {"400", "401"} =>
            (last'.request.event = NULL \/ BadSignature(last'.request) \/ ~last'.request.body.json)
       /\ (last'.request.event \notin WEBHOOK_HANDLERS \cup {NULL}
           /\ ~BadSignature(last'.request) /\ last'.request.body.json /\ last'.request.secret # "")
            => (last'.outcome = "200" /\ last'.response.status = "ignored" /\ StoreKept)]_vars


(* ------------------------------------------- claims about the scheduler *)
\* The attempts of the job run that ended in a failure
FailedAttempts == {k \in 1..Len(scheduler.job.attempts) : scheduler.job.attempts[k].outcome # "ok"}

C17_StartStopIdempotent ==
  /\ [](/\ Cardinality(scheduler.alive) <= 1
        /\ \A i \in scheduler.alive : i.id = scheduler.global /\ i.jobs = {"sync_all_projects"}
        /\ (scheduler.global # 0) <=> (scheduler.alive # {})
        /\ (get_scheduler_status(scheduler) = [running |-> FALSE, jobs |-> {}])
             <=> (scheduler.global = 0))
  /\ [][/\ (last'.op = "start" /\ scheduler.global # 0) => scheduler' = scheduler
        /\ (last'.op = "stop" /\ scheduler.global = 0) => scheduler' = scheduler
        /\ (last'.op = "start" /\ scheduler.global = 0) =>
             get_scheduler_status(scheduler') = [running |-> TRUE, jobs |-> {"sync_all_projects"}]
        /\ last'.op = "stop" => get_scheduler_status(scheduler') = [running |-> FALSE, jobs |-> {}]]_vars

\* start_scheduler was called on a scheduler that had been stopped and
\* started again
C17_Witness ==
  /\ last.op = "start" /\ last.outcome = "warning"
  /\ scheduler.made = 2 /\ scheduler.global = 2
  /\ get_scheduler_status(scheduler).running


(* ---------------------------------------------- claims about the full sync *)
\* C18: a full sync deletes no item: a row whose node id is not in the
\* fetched snapshot is the same row after the sync.
C18_SyncNeverDeletes ==
  [][(last'.op = "sync" /\ last'.outcome = "ok") =>
       /\ \A r \in items : r.id \in {q.id : q \in items'}
       /\ \A r \in items : r.item_node_id \notin {q.node_id : q \in Range(last'.snapshot)}
                             => r \in items']_vars

\* After a sync the store holds an item that the board no longer has
C18_Witness ==
  /\ SyncDone
  /\ \E r \in items : /\ ~remote.items[r.item_node_id].present
                      /\ r.item_node_id \notin {q.node_id : q \in Range(last.snapshot)}
                      /\ r.last_synced_at < clock


\* C19: the project's last_synced_at changes only at the commit of a run
\* that has upserted every item of its snapshot, to the value the run
\* assigned once after its loop; a run that fails leaves the project row as
\* it was.
C19_LastSyncedAtOncePerRun ==
  [][/\ project'.last_synced_at # project.last_synced_at =>
          \E r \in RunIds :
            /\ runs[r].pc = "flushed" /\ runs'[r].pc = "done"
            /\ runs[r].k = Len(runs[r].payloads) + 1 /\ runs[r].count = Len(runs[r].payloads)
            /\ \A q \in Range(runs[r].payloads) : \E c \in items' : c.item_node_id = q.node_id
     /\ \A r \in RunIds :
          /\ (runs'[r].pc \in {"failed", "aborted"} /\ runs[r].pc \notin {"failed", "aborted"})
               => project' = project
          /\ (runs'[r].pc = "done" /\ runs[r].pc # "done") =>
               (runs[r].stamp # NoDate /\ project'.last_synced_at = runs[r].stamp)
          /\ (runs[r].stamp # NoDate) => runs'[r].stamp = runs[r].stamp
          /\ (runs'[r].stamp # runs[r].stamp) =>
               (runs[r].pc = "items" /\ runs[r].k > Len(runs[r].payloads))]_vars

\* One run failed while fetching, the other committed its snapshot and its stamp
C19_Witness ==
  \E r, o \in RunIds :
    /\ runs[r].pc = "aborted" /\ runs[r].stamp = NoDate
    /\ runs[o].pc = "done" /\ runs[o].count >= 1
    /\ project.last_synced_at = runs[o].stamp /\ runs[o].stamp # NoDate

(* ------------------------------------------------ claims about item paging *)
RECURSIVE Flatten(_)
\* The nodes of the pages of a sequence of responses, page after page
Flatten(pages) ==
  IF pages = <<>> THEN <<>> ELSE pages[1].items.nodes \o Flatten(Tail(pages))

\* The requests so far follow the cursors, and the result so far is the pages so far
PagedInOrder ==
  /\ \A k \in 1..Len(pager.sent) :
        /\ pager.sent[k].first = 50
        /\ k = 1 => pager.sent[k].after = NoCursor
        /\ k > 1 => /\ HasNextPage(pager.got[k - 1])
                    /\ pager.sent[k].after = pager.got[k - 1].items.pageInfo.endCursor
  /\ pager.items = PagePayloads(Flatten(pager.got))
  /\ (pager.pc = "request" /\ pager.got # <<>>) => HasNextPage(pager.got[Len(pager.got)])
  /\ pager.pc = "returned" => /\ pager.got # <<>>
                               /\ ~HasNextPage(pager.got[Len(pager.got)])
                               /\ Len(pager.sent) = Len(pager.got)

\* A response that reports no further page is at hand
NoFurtherPage == pager.pc = "response" /\ ~HasNextPage(pager.data)

\* C20: fetch_project_items requests the first page with no cursor and page
\* size 50 and each next page with the end cursor of the page before it, goes
\* on only after a page that reports a further page and returns at the first
\* response that reports none, its result is the items of the fetched pages,
\* each once, page after page; and once a response reports no further page the
\* call returns.
C20_PagesUntilNoFurtherPage == []PagedInOrder /\ (NoFurtherPage ~> pager.pc = "returned")

\* A call that returned after three pages of a board of more than 100 items
C20_Witness ==
  /\ pager.pc = "returned"
  /\ Len(pager.got) = 3
  /\ \A k \in 1..3 : pager.got[k].node
  /\ Len(pager.items) > 2 * PageSize

(* ---------------------------------------------- claims about edit validation *)
\* The changeset supplies a start and an end date, the end before the start
EndsBeforeItStarts(cs) ==
  /\ {"start_date", "end_date"} \subseteq cs.keys
  /\ cs.start_date # NoDate /\ cs.end_date # NoDate
  /\ cs.end_date < cs.start_date

\* C21: an edit of a stored item whose changeset supplies a start and an end
\* date with the end before the start ends with 422, issues no remote call
\* and changes neither the items nor the remote board, whatever else the
\* changeset holds.
C21_EndBeforeStartRejected ==
  [][(EditStep /\ ~StaleView(EditedBefore, last'.cs) /\ EndsBeforeItStarts(last'.cs))
       => (last'.outcome = "422" /\ last'.calls = <<>> /\ last'.rpc = "none"
           /\ items' = items /\ remote' = remote)]_vars

\* The rejected changeset also moves the item to Done, a column of the project
\* with a cached option, which the item is not in
C21_Witness ==
  /\ last.op = "edit" /\ last.outcome = "422"
  /\ last.cs.keys = {"status", "start_date", "end_date"}
  /\ EndsBeforeItStarts(last.cs)
  /\ last.cs.status \in Range(project.status_columns)
  /\ \E f \in CachedStatusFields : NamedOptions(f, last.cs.status) # {}
  /\ \E r \in items : r.id = last.pk /\ r.status # last.cs.status

(* ----------------------------------------------- claims about epic options *)
\* The color is given and, trimmed and in upper case, not of the palette
OutOfPalette(color) ==
  /\ color # NULL /\ Upper(Strip(color)) # ""
  /\ Upper(Strip(color)) \notin {"GRAY", "BLUE", "GREEN", "YELLOW", "ORANGE", "RED", "PURPLE", "PINK",
                                  "BROWN", "BLACK"}

\* The cached fields that can play the epic role
CachedEpicFields ==
  {f \in fields : Lower(f.field_type) = "single_select" /\ Lower(f.field_name) \in EPIC_FIELD_ALIASES}

\* C22: creating or updating an epic option with a color outside the palette,
\* or while no cached field resolves as the epic field, ends with 422, sends
\* no mutation and leaves the remote catalog and the field cache as they were.
C22_BadColorOrNoEpicFieldRejected ==
  [][(/\ last'.op \in {"epic_create", "epic_update"}
      /\ (OutOfPalette(last'.epic.color) \/ CachedEpicFields = {}))
       => (last'.outcome = "422" /\ last'.calls = <<>> /\ remote' = remote /\ fields' = fields
           /\ serial' = serial)]_vars

\* A creation with the color "magenta" was rejected on a project whose epic
\* field is cached and exists remotely
C22_Witness ==
  /\ last.op = "epic_create" /\ last.outcome = "422"
  /\ last.epic.color = "magenta"
  /\ CachedEpicFields # {}
  /\ \E f \in CachedEpicFields : \E g \in Range(remote.catalog) : g.id = f.field_id

\* What a cached row and a catalog entry have in common
Mirrored(f) == <<f.field_id, f.field_name, f.field_type, f.shape, f.entries>>
Fetched(g) == <<g.id, g.name, FieldTypeOf(g), g.shape, g.entries>>

\* The options (id, name, color) of the remote field with this id
RemoteOptions(rem, field_id) ==
  LET g == CHOOSE g \in Range(rem.catalog) : g.id = field_id
  IN [k \in 1..Len(g.entries) |->
        [id |-> g.entries[k].id, name |-> g.entries[k].name, color |-> g.entries[k].color]]

\* C23: when a create, update or delete of an epic option succeeds, the field
\* cache it leaves mirrors the whole remote catalog as it is after the
\* mutation, and a lookup of the epic options returns the option list of the
\* remote field the mutation went to: with the created option under its name,
\* with the updated option under its new name, without the deleted option.
C23_EpicMutationRefreshesCache ==
  [][(last'.op \in {"epic_create", "epic_update", "epic_delete"} /\ last'.outcome = "ok") =>
       /\ Len(last'.calls) = 1
       /\ {Mirrored(f) : f \in fields'} = {Fetched(g) : g \in Range(remote'.catalog)}
       /\ list_epic_options(fields') = RemoteOptions(remote', last'.calls[1].field)
       /\ last'.op = "epic_create" =>
            \E o \in Range(list_epic_options(fields')) :
              /\ o.id = last'.epic.returned /\ o.name = last'.epic.name
              /\ \A q \in Range(list_epic_options(fields)) : q.id # o.id
       /\ last'.op = "epic_update" =>
            \E o \in Range(list_epic_options(fields')) :
              /\ o.id = last'.epic.option_id
              /\ last'.epic.name # NULL => o.name = last'.epic.name
       /\ last'.op = "epic_delete" =>
            \A o \in Range(list_epic_options(fields')) : o.id # last'.epic.option_id]_vars

\* The option "Big" was created in blue and is the second option of the lookup
C23_Witness ==
  /\ last.op = "epic_create" /\ last.outcome = "ok"
  /\ last.epic.name = "Big" /\ last.epic.color = "blue"
  /\ Len(list_epic_options(fields)) = 2
  /\ list_epic_options(fields)[2] = [id |-> last.epic.returned, name |-> "Big", color |-> "BLUE"]

(* ------------------------------------------ claims about the GraphQL client *)
\* The call of execute ended; the answer to its first request
ExecuteEnded == svc.fn = "execute" /\ svc.pc \in {"returned", "raised"}
FirstAnswer == svc.args[1]

\* The errors of the answer that are not NOT_FOUND on the root path user or organization
FatalOnes(answer) ==
  SelectSeq(answer.errors,
            LAMBDA e : e.type # "NOT_FOUND" \/ (e.path # <<"user">> /\ e.path # <<"organization">>))

\* C24: a call of execute sends exactly one request, and ends as the answer to
\* it says: a transport failure raises 503; a status outside 200..299 raises
\* 400 with the status and the text of the response; a response with fatal
\* errors raises one 400 whose message joins the messages of all of them in
\* order; any other response returns its data.
C24_OneRequestMappedOutcome ==
  ExecuteEnded =>
    /\ svc.sent = <<"POST">>
    /\ Len(svc.result) = 1
    /\ IF FirstAnswer.kind = "failure"
       THEN svc.pc = "raised" /\ svc.result[1].code = "503"
       ELSE IF FirstAnswer.status \notin 200..299
       THEN /\ svc.pc = "raised" /\ svc.result[1].code = "400"
            /\ svc.result[1].detail[2] = FirstAnswer.status
            /\ svc.result[1].detail[3] = FirstAnswer.text
       ELSE IF FatalOnes(FirstAnswer) # <<>>
       THEN /\ svc.pc = "raised" /\ svc.result[1].code = "400"
            /\ Len(svc.result[1].detail) = Len(FatalOnes(FirstAnswer))
            /\ \A k \in 1..Len(FatalOnes(FirstAnswer)) :
                 FatalOnes(FirstAnswer)[k].message # "" =>
                   svc.result[1].detail[k] = FatalOnes(FirstAnswer)[k].message
       ELSE svc.pc = "returned" /\ svc.result[1].data = FirstAnswer.data

\* A response that lists two fatal errors raised one error with both messages
C24_Witness ==
  /\ ExecuteEnded /\ svc.pc = "raised"
  /\ FirstAnswer.kind = "response" /\ FirstAnswer.status = 200
  /\ Len(FirstAnswer.errors) = 2 /\ Len(FatalOnes(FirstAnswer)) = 2
  /\ svc.result[1].detail = <<"no node", "forbidden">>

(* ------------------------------------------ claims about the field parser *)
\* parse_field_details returned: the nodes it was given and the details it gave
Parsed == svc.fn = "parse_field_details" /\ svc.pc = "returned"
Nodes == svc.args
Details == svc.result[1].details

\* The date values of the nodes whose field name has one of these roles
DatesOf(aliases) ==
  SelectSeq(Nodes, LAMBDA n : /\ n.typename = "ProjectV2ItemFieldDateValue"
                              /\ Lower(n.name) \in aliases
                              /\ n.date # NoDate /\ n.date # BadDate)
NoExplicit(aliases) == DatesOf(aliases) = <<>>
StartRole == {"start date", "start", "kickoff", "início", "inicio"}
EndRole == {"end date", "finish", "fim", "conclusão", "conclusao"}
DueRole == {"due date", "target date", "deadline", "entrega"}

\* The iteration values of the item
IterationsOf == SelectSeq(Nodes, LAMBDA n : n.typename = "ProjectV2ItemFieldIterationValue")

\* C25 as stated: an item with a due date and no explicit start or end date
\* is parsed to start = due - 1 day and end = due.
C25_DueDateFallback ==
  (Parsed /\ ~NoExplicit(DueRole) /\ NoExplicit(StartRole) /\ NoExplicit(EndRole)) =>
    /\ Details.start_date = DatesOf(DueRole)[1].date - 1
    /\ Details.end_date = DatesOf(DueRole)[1].date

\* C25 amended: an item with a due date, no explicit start or end date and no
\* iteration value is parsed to start = due - 1 day and end = due.
C25_DueDateFallbackWithoutIteration ==
  (Parsed /\ ~NoExplicit(DueRole) /\ NoExplicit(StartRole) /\ NoExplicit(EndRole)
   /\ IterationsOf = <<>>) =>
    /\ Details.start_date = DatesOf(DueRole)[1].date - 1
    /\ Details.end_date = DatesOf(DueRole)[1].date

\* An item with the due dates 8 and 7 and a date of no role got 7..8
C25_Witness ==
  /\ Parsed
  /\ Nodes = <<DateNode("Due date", 8), DateNode("Shipped", 6), DateNode("Due date", 7)>>
  /\ Details.start_date = 7 /\ Details.end_date = 8 /\ Details.due_date = 8

\* The end of an iteration that starts at this date string and lasts this long
ExpectedEnd(startDate, duration) ==
  IF startDate # NoDate /\ startDate # BadDate /\ duration.kind \in {"int", "digits"}
  THEN startDate + duration.n
  ELSE NoDate

\* resolve_iteration_option returned for an id the cached field has: the option and the result
Resolved ==
  /\ svc.fn = "resolve_iteration_option" /\ svc.pc = "returned"
  /\ svc.args[1].entries[1].id = svc.args[2]
ResolvedOption == svc.args[1].entries[1]

\* The iteration value that the parser keeps: the last of the item
KeptIteration == IterationsOf[Len(IterationsOf)]

\* C26: the iteration end is the iteration start plus the duration read as a
\* whole number of days, and null when the start is absent or the duration is
\* missing, blank or no number; in the parsed details of an item and in the
\* resolution of a cached iteration option alike.
C26_IterationEndFromDuration ==
  /\ (Parsed /\ IterationsOf # <<>>) =>
       Details.iteration_end = ExpectedEnd(KeptIteration.startDate, KeptIteration.duration)
  /\ Resolved =>
       svc.result[1].end = ExpectedEnd(ResolvedOption.startDate, ResolvedOption.duration)

\* An option that starts on day 4 with a duration that is no number was
\* resolved to an iteration without an end
C26_Witness ==
  /\ Resolved
  /\ ResolvedOption.duration = DurText
  /\ svc.result[1].start = 4 /\ svc.result[1].end = NoDate

\* C29: without an explicit start date the start is the iteration start, and
\* without an explicit end date the end is the iteration end, whenever the
\* iteration gives them and whether or not the item has a due date; an
\* explicit start or end date is kept as it is.
C29_IterationDatesInherited ==
  Parsed =>
    /\ ~NoExplicit(StartRole) => Details.start_date = DatesOf(StartRole)[1].date
    /\ ~NoExplicit(EndRole) => Details.end_date = DatesOf(EndRole)[1].date
    /\ (NoExplicit(StartRole) /\ IterationsOf # <<>>
        /\ KeptIteration.startDate # NoDate /\ KeptIteration.startDate # BadDate)
         => Details.start_date = KeptIteration.startDate
    /\ (NoExplicit(EndRole) /\ IterationsOf # <<>>
        /\ ExpectedEnd(KeptIteration.startDate, KeptIteration.duration) # NoDate)
         => Details.end_date = ExpectedEnd(KeptIteration.startDate, KeptIteration.duration)

\* An item in Sprint 1 (day 2, 14 days) with the due date 7 and no explicit
\* date got the dates of the sprint
C29_Witness ==
  /\ Parsed
  /\ Nodes = <<IterationNode("Sprint", "Sprint 1", "it1", 2, DurInt(14)), DateNode("Due date", 7)>>
  /\ Details.start_date = 2 /\ Details.end_date = 16 /\ Details.due_date = 7

(* ---------------------------------------------- claims about the epic role *)
\* _resolve_epic_field_from_collection returned: the fields it was given and its result
EpicResolved == svc.fn = "resolve_epic_field" /\ svc.pc = "returned"
Given == svc.args
Found == svc.result[1]

\* The field is of single-select type and its lower-cased name contains an epic alias
QualifiesAsEpic(f) ==
  /\ f.field_type \in {"SINGLE_SELECT", "ProjectV2SingleSelectField"}
  /\ f.field_name \in {"Epic", "My Epics", "Parent issue", "Epic Link"}

\* C30: the epic role resolves to the first of the cached fields that is of
\* single-select type and whose lower-cased name contains an epic alias; a
\* field of another type is never the result, whatever its name; without a
\* qualifying field the result is "not found".
C30_EpicRoleNeedsSingleSelect ==
  EpicResolved =>
    /\ (\E k \in 1..Len(Given) : QualifiesAsEpic(Given[k])) =>
         \E k \in 1..Len(Given) :
           /\ QualifiesAsEpic(Given[k]) /\ Found = Given[k]
           /\ \A j \in 1..(k - 1) : ~QualifiesAsEpic(Given[j])
    /\ (\A k \in 1..Len(Given) : ~QualifiesAsEpic(Given[k])) => Found = NoField
    /\ Found # NoField => Found.field_type \notin {"TEXT", "NUMBER", "ITERATION"}

\* A text field named "Epic" was passed over for the single-select field "My Epics"
C30_Witness ==
  /\ EpicResolved
  /\ Len(Given) = 2
  /\ Given[1].field_name = "Epic" /\ Given[1].field_type = "TEXT"
  /\ Found = Given[2] /\ Found.field_name = "My Epics"

(* ------------------------------------- claims about configuring projects *)
\* The request of this name has just returned normally
JustReturned(fn) == svc'.fn = fn /\ svc'.pc = "returned" /\ clock' = clock + 1

NoRepetition(seq) == \A i, j \in 1..Len(seq) : seq[i] = seq[j] => i = j

\* C27: whenever the status-column list of a project is set, derived from the
\* options of the fetched Status field or written by the status-columns
\* endpoint, it has no duplicates and its last element is "Done".
C27_StatusColumnsEndWithDone ==
  \A p \in projects.rows :
    p.status_columns # <<>> =>
      /\ NoRepetition(p.status_columns)
      /\ p.status_columns[Len(p.status_columns)] = "Done"

\* (tenant, owner, project number) of a project row
TupleOf(p) == <<p.account_id, p.owner_login, p.project_number>>

\* No two projects share their tuple, no two share their remote identifier
ProjectsUnique ==
  \A p, q \in projects.rows :
    p.id # q.id => TupleOf(p) # TupleOf(q) /\ p.project_node_id # q.project_node_id

\* A configuration call of a tuple no project has adds a project with that
\* tuple and keeps the others; a call of a tuple a project has updates it
FirstCallCreates ==
  JustReturned("configure_github_project") =>
    IF \E p \in projects.rows : TupleOf(p) = svc'.args
    THEN {p.id : p \in projects'.rows} = {p.id : p \in projects.rows}
    ELSE /\ \E p \in projects'.rows : TupleOf(p) = svc'.args /\ p.id \notin {q.id : q \in projects.rows}
         /\ \A q \in projects.rows : \E p \in projects'.rows : p.id = q.id /\ TupleOf(p) = TupleOf(q)

\* C28: after any sequence of configuration calls by any tenants no two
\* projects share (tenant, owner, project number) and no two share the remote
\* identifier; the first configuration call of a tuple creates the project
\* and later calls of it update that project.
C28_ProjectsUniqueCreatedOnce == []ProjectsUnique /\ [][FirstCallCreates]_vars

(* ----------------------------------------- claims about the frame of edits *)
\* The attributes a local edit has no assignment for
EditFrame ==
  {"id", "item_node_id", "title", "url", "assignees", "estimate", "field_values", "content_node_id",
   "content_type", "remote_updated_at", "updated_at", "last_synced_at", "account_id", "project_id"}

\* The row with this primary key before and after the step
RowBefore(pk) == CHOOSE r \in items : r.id = pk
RowAfter(pk) == CHOOSE r \in items' : r.id = pk

\* The edit leaves the frame of its item and every other item alone
FrameKept(pk) ==
  /\ \A a \in EditFrame : RowAfter(pk)[a] = RowBefore(pk)[a]
  /\ \A r \in items : r.id # pk => r \in items'
  /\ {r.id : r \in items'} = {r.id : r \in items}

Stamped(pk, ed) ==
  RowAfter(pk).last_local_edit_at = clock' /\ RowAfter(pk).last_local_edit_by = ed

\* The original statement of C31: every successful edit keeps the frame and is stamped
C31_EditTouchesOnlyItsSubsetAlwaysStamps ==
  [][\A pk \in {r.id : r \in items}, cs \in Changesets, ed \in Editors, net \in {"ok", "down", "no_token"} :
       (UpdateProjectItem(pk, cs, ed, net) /\ last'.outcome = "ok") =>
         FrameKept(pk) /\ Stamped(pk, ed)]_vars

\* C31: a successful local edit changes none of title, url, assignees,
\* estimate, field values, content identity, remote_updated_at and
\* last_synced_at, of its item or of another; it stamps last_local_edit_at and
\* last_local_edit_by with the editor when the request carries one of status,
\* the dates, iteration_id, epic_option_id or epic_name, and a request that
\* carries none of them (an iteration title alone) leaves the item as it was.
C31_EditTouchesOnlyItsSubset ==
  [][\A pk \in {r.id : r \in items}, cs \in Changesets, ed \in Editors, net \in {"ok", "down", "no_token"} :
       (UpdateProjectItem(pk, cs, ed, net) /\ last'.outcome = "ok") =>
         /\ FrameKept(pk)
         /\ cs.keys \cap ChangeKeys # {} => Stamped(pk, ed)
         /\ cs.keys \cap ChangeKeys = {} => RowAfter(pk) = RowBefore(pk)]_vars

\* An edit of the status succeeded on an item that was synced before: the row
\* has the stamp of the edit and the title and sync time of the sync
C31_Witness ==
  /\ last.op = "edit" /\ last.outcome = "ok" /\ last.cs.keys = {"status"}
  /\ \E r \in items :
       /\ r.id = last.pk
       /\ r.status = "Done"
       /\ r.last_local_edit_at = clock /\ r.last_local_edit_by = "u1"
       /\ r.last_synced_at # NoDate /\ r.last_synced_at < clock
       /\ r.title = "t1" /\ r.url = "url1"

(* ------------------------------------ claims about edits during a resync *)
\* The payload of the item in the snapshot of the job's run is older than the
\* item on the remote board: the snapshot was fetched before the edit reached it
StaleInSnapshot(c) ==
  \E k \in 1..Len(runs["job"].payloads) :
    /\ runs["job"].payloads[k].node_id = c.item_node_id
    /\ runs["job"].payloads[k].remote_updated_at < remote.items[c.item_node_id].updated_at

\* C32: a full resync that fetched its snapshot before a local status edit
\* was mirrored remotely does not overwrite the edited status: once the edit
\* and the resync have both finished, the local status of the item is its
\* remote status.
C32_ResyncKeepsConcurrentEdit ==
  \A c \in items :
    (runs["job"].pc = "done" /\ c.last_local_edit_at # NoDate /\ StaleInSnapshot(c)) =>
      c.status = remote.items[c.item_node_id].status

(* --------------------------------- claims about the session of the job *)
\* The step is the job's attempt on this project / on another one
AttemptStep == scheduler.job.pc = "running" /\ scheduler'.job.k = scheduler.job.k + 1
OwnStep == AttemptStep /\ Registered[scheduler.job.k] = project.project_node_id

\* C33: in the scheduler job, the changes of a sync that failed after its
\* field catalog was refreshed are not persisted: the field rows and the
\* field_mappings of the project change only by a successful sync of that
\* project, never by the failed one and never by the later sync of another
\* project in the same session.
C33_FailedSyncPersistsNothing ==
  [][(AttemptStep /\ ~(OwnStep /\ last'.outcome = "ok")) =>
       fields' = fields /\ project' = project /\ items' = items]_vars

(* -------------------------------------- claims about the frame of upserts *)
\* The attributes of a stored item the upsert has no assignment for
UpsertFrame == {"id", "item_node_id", "last_local_edit_at", "last_local_edit_by", "account_id", "project_id"}

\* C34: the upsert of an item that is already stored overwrites every synced
\* attribute (status, dates, iteration, epic, title, assignees, field values,
\* remote timestamps) with the fetched snapshot, whether or not the item was
\* edited locally, and leaves its last_local_edit_at, last_local_edit_by,
\* account and project binding as they were.
C34_UpsertOverwritesSyncedKeepsProvenance ==
  [][(last'.op = "sync" /\ last'.outcome = "ok") =>
       \A r \in items : \A p \in Range(last'.snapshot) :
         p.node_id = r.item_node_id =>
           \E q \in items' :
             /\ \A a \in UpsertFrame : q[a] = r[a]
             /\ \A a \in SyncedAttrs : q[a] = p[a]
             /\ DOMAIN q = UpsertFrame \cup SyncedAttrs \cup {"last_synced_at"}]_vars

\* A sync has rewritten an item that carries a local edit: it has the
\* snapshot's due date and the stamp of the edit
C34_Witness ==
  /\ last.op = "sync" /\ last.outcome = "ok"
  /\ \E r \in items : \E p \in Range(last.snapshot) :
       /\ p.node_id = r.item_node_id
       /\ r.last_local_edit_at # NoDate /\ r.last_local_edit_at < r.last_synced_at
       /\ r.last_local_edit_by = "u1"
       /\ r.due_date = p.due_date /\ r.status = p.status

(* -------------------------------------------- claims about stored dates *)
\* C35: after any sequence of accepted local edits every item that has a
\* start date and an end date has end >= start, also when an edit supplies
\* only one of the two dates.
C35_StoredEndNotBeforeStart ==
  \A r \in items :
    (r.start_date # NoDate /\ r.end_date # NoDate) => r.end_date >= r.start_date

(* -------------------------------------- claims about stale client views *)
\* The step is an edit of the item the client has a view of, and the view is
\* older than the stored item
EditFromStaleView ==
  /\ svc.fn = "list_project_items"
  /\ last'.op = "edit" /\ clock' = clock + 1 /\ last'.pk = svc.result[1].id
  /\ \E r \in items : /\ r.id = svc.result[1].id
                      /\ svc.result[1].remote_updated_at < r.remote_updated_at

\* C36: every edit submitted from a client view that is older than the
\* stored remote_updated_at of the item is rejected as a conflict (409),
\* whether the request carries the remote_updated_at of the view or none.
C36_StaleViewAlwaysConflicts ==
  [][EditFromStaleView => last'.outcome = "409"]_vars

(* ---------------------------- claims about the parser and the resolver *)
EpicOfItemDone == svc.fn = "epic_of_item" /\ svc.pc = "returned"
EpicField == svc.result[1]
ItemDetails == svc.result[2]

\* The item's value node of the cached field
ValueOf(f) == CHOOSE n \in Range(svc.sent) : n.name = f.field_name

\* C37: the parser and the resolver agree on the epic field: when the
\* resolver selects a single-select field, the parser has the item's epic
\* name and option id from the value of that field, and the parser has an
\* epic from no field the resolver does not select.
C37_ParserAgreesWithResolver ==
  EpicOfItemDone =>
    /\ EpicField # NoField =>
         /\ ItemDetails.epic_value = ValueOf(EpicField).option_name
         /\ ItemDetails.epic_option_id = ValueOf(EpicField).optionId
    /\ ItemDetails.epic_option_id # NULL =>
         /\ EpicField # NoField
         /\ ItemDetails.epic_option_id = ValueOf(EpicField).optionId

(* ------------------------------ claims about the status columns after a sync *)
\* C38: after a full sync the status-column list of the project has the
\* option names of the Status field of the catalog the sync fetched, so that
\* the membership check accepts a local edit to every status that exists
\* remotely.
C38_SyncRefreshesStatusColumns ==
  (last.op = "sync" /\ last.outcome = "ok" /\ project.status_columns # <<>>) =>
    RemoteStatusNames(last.catalog) \subseteq Range(project.status_columns)


\* The stored change request is reviewed in this step
Reviewed ==
  /\ svc.request.status # svc'.request.status
  /\ svc'.request.status \in {"approved", "converted", "rejected"}

====
